---- MODULE Spec2Model ----
(***************************************************************************)
(* Verification model of the wgfont GPU glyph cache and GPU renderer.      *)
(*                                                                         *)
(*   CacheState   src/renderer/gpu_renderer/glyph_cache.rs  (one LRU tier) *)
(*   Fallback-    src/renderer/gpu_renderer/glyph_cache.rs  (tier list)    *)
(*     GpuCache                                                            *)
(*   GpuRenderer  src/renderer/gpu_renderer.rs              (try_render)   *)
(*                                                                         *)
(* Spec       drives one CacheState through its five operations.           *)
(* SpecFallbackTier drives it as FallbackGpuCache does.                    *)
(* SpecRender drives a GpuRenderer through try_render, callback by         *)
(*            callback, over several renders.                              *)
(* SpecScenario renders growing layouts of distinct small glyphs on a      *)
(*            renderer with one tier.                                      *)
(***************************************************************************)
EXTENDS Integers, Sequences, FiniteSets, TLC

(***************************************************************************)
(* Bounds of the model.                                                    *)
(***************************************************************************)
\* capacity of the tier driven by Spec
TierCapacity == 2
\* glyph identities of the tier-level specification are 1..NumKeys: one more
\* than the tier holds
NumKeys == TierCapacity + 1
\* new_batch is not called once current_batch_id has reached MaxBatch
MaxBatch == 1
\* width in bits of the batch counter (usize in the source), scaled down
BatchIdWidth == 4
\* glyph positions of all the layouts rendered in one run of SpecRender
MaxGlyphs == 2
\* tiles per axis of the single tier of SpecScenario
ScenarioTilesPerAxis == 2

\* ATLAS_MARGIN
ATLAS_MARGIN == 2

\* Option::None for a slot index, and for a glyph id
None == 0 - 1
NoGlyph == 0

Keys == 1..NumKeys

BatchIdModulus == 2 ^ BatchIdWidth

(***************************************************************************)
(* CacheState: one LRU tier with per-batch protection.                     *)
(***************************************************************************)
LruNodeDefault ==
    [glyph_id |-> NoGlyph, newer |-> None, older |-> None, last_used_batch_id |-> 0]

\* CacheState::new
CacheStateNew(capacity, keys) ==
    [capacity         |-> capacity,
     lru_nodes        |-> [i \in 0..(capacity - 1) |-> LruNodeDefault],
     lru_head         |-> None,
     lru_tail         |-> None,
     lru_map          |-> [g \in keys |-> None],
     lru_empties      |-> [i \in 1..capacity |-> i - 1],
     current_batch_id |-> 0]

\* variant: clear() does not reset the batch id
CacheStateClearKeepsBatch(s) ==
    [s EXCEPT !.lru_map = [g \in DOMAIN s.lru_map |-> None],
              !.lru_empties = [i \in 1..s.capacity |-> i - 1],
              !.lru_head = None,
              !.lru_tail = None]

\* CacheState::clear (lru_nodes is left as it is)
CacheStateClear(s) ==
    [s EXCEPT !.lru_map = [g \in DOMAIN s.lru_map |-> None],
              !.lru_empties = [i \in 1..s.capacity |-> i - 1],
              !.lru_head = None,
              !.lru_tail = None,
              !.current_batch_id = 0]

\* CacheState::new_batch: wrapping_add(1)
CacheStateNewBatch(s) ==
    [s EXCEPT !.current_batch_id = (s.current_batch_id + 1) % BatchIdModulus]

\* Vec::pop on lru_empties
PopEmpties(s) ==
    [s EXCEPT !.lru_empties = SubSeq(s.lru_empties, 1, Len(s.lru_empties) - 1)]

LastEmpty(s) == s.lru_empties[Len(s.lru_empties)]

\* move_node_to_front that forgets to move lru_tail when the tail node leaves
MoveNodeToFrontKeepsTail(s, current_index) ==
    LET older_idx == s.lru_nodes[current_index].older
        newer_idx == s.lru_nodes[current_index].newer
        old_head_idx == s.lru_head
    IN  IF newer_idx /= None /\ older_idx /= None
        THEN [s EXCEPT !.lru_nodes[older_idx].newer = newer_idx,
                       !.lru_nodes[newer_idx].older = older_idx,
                       !.lru_nodes[old_head_idx].newer = current_index,
                       !.lru_head = current_index,
                       !.lru_nodes[current_index].older = old_head_idx,
                       !.lru_nodes[current_index].newer = None]
        ELSE IF newer_idx /= None
        THEN [s EXCEPT !.lru_nodes[newer_idx].older = None,
                       !.lru_nodes[old_head_idx].newer = current_index,
                       !.lru_head = current_index,
                       !.lru_nodes[current_index].older = old_head_idx,
                       !.lru_nodes[current_index].newer = None]
        ELSE s

\* CacheState::move_node_to_front
MoveNodeToFront(s, current_index) ==
    LET older_idx == s.lru_nodes[current_index].older
        newer_idx == s.lru_nodes[current_index].newer
        old_head_idx == s.lru_head
    IN  IF newer_idx /= None /\ older_idx /= None
        THEN \* node is at middle
             [s EXCEPT !.lru_nodes[older_idx].newer = newer_idx,
                       !.lru_nodes[newer_idx].older = older_idx,
                       !.lru_nodes[old_head_idx].newer = current_index,
                       !.lru_head = current_index,
                       !.lru_nodes[current_index].older = old_head_idx,
                       !.lru_nodes[current_index].newer = None]
        ELSE IF newer_idx /= None
        THEN \* node is at tail
             [s EXCEPT !.lru_nodes[newer_idx].older = None,
                       !.lru_tail = newer_idx,
                       !.lru_nodes[old_head_idx].newer = current_index,
                       !.lru_head = current_index,
                       !.lru_nodes[current_index].older = old_head_idx,
                       !.lru_nodes[current_index].newer = None]
        ELSE \* already at head
             s

\* CacheState::attach_to_head
AttachToHead(s, node_idx, glyph_id) ==
    LET s1 == [s EXCEPT !.lru_nodes[node_idx].newer = None,
                        !.lru_nodes[node_idx].older = s.lru_head,
                        !.lru_nodes[node_idx].glyph_id = glyph_id,
                        !.lru_map[glyph_id] = node_idx]
        s2 == IF s1.lru_head /= None
              THEN [s1 EXCEPT !.lru_nodes[s1.lru_head].newer = node_idx]
              ELSE s1
        s3 == [s2 EXCEPT !.lru_head = node_idx]
    IN  IF s3.lru_tail = None THEN [s3 EXCEPT !.lru_tail = node_idx] ELSE s3

\* CacheState::push_front; the caller has checked that glyph_id is not mapped
\* (the source panics otherwise, see PushPanics)
PushFront(s, glyph_id) ==
    IF Len(s.lru_empties) = 0
    THEN \* all slots are used, evict tail
         LET tail_idx == s.lru_tail
             second_tail == s.lru_nodes[tail_idx].newer
             s1 == IF second_tail /= None
                   THEN [s EXCEPT !.lru_nodes[second_tail].older = None,
                                  !.lru_tail = second_tail]
                   ELSE [s EXCEPT !.lru_head = None, !.lru_tail = None]
             old_key == s1.lru_nodes[tail_idx].glyph_id
             s2 == IF old_key /= NoGlyph
                   THEN [s1 EXCEPT !.lru_map[old_key] = None]
                   ELSE s1
         IN  [st |-> AttachToHead(s2, tail_idx, glyph_id), idx |-> tail_idx]
    ELSE \* use empty slot
         LET target_idx == LastEmpty(s)
         IN  [st |-> AttachToHead(PopEmpties(s), target_idx, glyph_id),
              idx |-> target_idx]

\* an eviction test that never finds the tail protected
TailIsNeverProtected(s) == FALSE

\* an eviction test that looks at the head of the list instead of the tail
HeadIsProtected(s) ==
    s.lru_nodes[s.lru_head].last_used_batch_id = s.current_batch_id

\* the "tail is protected" test of get_or_push_and_protect (line 112)
TailIsProtected(s) ==
    s.lru_nodes[s.lru_tail].last_used_batch_id = s.current_batch_id

\* CacheState::get_or_push_and_protect
\* result: the state after the call, the slot (or None) and Hit / NeedToUpload
GetOrPushAndProtect(s, glyph_id) ==
    IF s.lru_map[glyph_id] /= None
    THEN \* Entry::Occupied
         LET index == s.lru_map[glyph_id]
             s1 == [s EXCEPT !.lru_nodes[index].last_used_batch_id = s.current_batch_id]
         IN  [st |-> MoveNodeToFront(s1, index), idx |-> index, res |-> "Hit"]
    ELSE IF Len(s.lru_empties) /= 0
    THEN \* Entry::Vacant with a free slot
         LET target_idx == LastEmpty(s)
             s0 == PopEmpties(s)
             s1 == [s0 EXCEPT !.lru_nodes[target_idx].newer = None,
                              !.lru_nodes[target_idx].older = s0.lru_head,
                              !.lru_nodes[target_idx].glyph_id = glyph_id,
                              !.lru_nodes[target_idx].last_used_batch_id = s0.current_batch_id,
                              !.lru_map[glyph_id] = target_idx]
             s2 == IF s1.lru_head /= None
                   THEN [s1 EXCEPT !.lru_nodes[s1.lru_head].newer = target_idx]
                   ELSE s1
             s3 == [s2 EXCEPT !.lru_head = target_idx]
             s4 == IF s3.lru_tail = None THEN [s3 EXCEPT !.lru_tail = target_idx] ELSE s3
         IN  [st |-> s4, idx |-> target_idx, res |-> "NeedToUpload"]
    ELSE \* Eviction case
         LET tail_idx == s.lru_tail
         IN  IF TailIsProtected(s)
             THEN [st |-> s, idx |-> None, res |-> "None"]
             ELSE LET second_tail == s.lru_nodes[tail_idx].newer
                      r1 == IF second_tail /= None
                            THEN [s EXCEPT !.lru_nodes[second_tail].older = None,
                                           !.lru_tail = second_tail]
                            ELSE [s EXCEPT !.lru_head = None, !.lru_tail = None]
                      old_key == r1.lru_nodes[tail_idx].glyph_id
                      r2 == IF old_key /= NoGlyph
                            THEN [r1 EXCEPT !.lru_map[old_key] = None]
                            ELSE r1
                      target_idx == tail_idx
                      s1 == [r2 EXCEPT !.lru_nodes[target_idx].newer = None,
                                       !.lru_nodes[target_idx].older = r2.lru_head,
                                       !.lru_nodes[target_idx].glyph_id = glyph_id,
                                       !.lru_nodes[target_idx].last_used_batch_id = r2.current_batch_id,
                                       !.lru_map[glyph_id] = target_idx]
                      s2 == IF s1.lru_head /= None
                            THEN [s1 EXCEPT !.lru_nodes[s1.lru_head].newer = target_idx]
                            ELSE s1
                      s3 == [s2 EXCEPT !.lru_head = target_idx]
                      s4 == IF s3.lru_tail = None
                            THEN [s3 EXCEPT !.lru_tail = target_idx]
                            ELSE s3
                  IN  [st |-> s4, idx |-> target_idx, res |-> "NeedToUpload"]

\* CacheState::get_and_protect_entry
GetAndProtectEntry(s, glyph_id) ==
    IF s.lru_map[glyph_id] /= None
    THEN LET idx == s.lru_map[glyph_id]
             s1 == [s EXCEPT !.lru_nodes[idx].last_used_batch_id = s.current_batch_id]
         IN  [st |-> MoveNodeToFront(s1, idx), idx |-> idx]
    ELSE [st |-> s, idx |-> None]

\* variant: the admission of push_and_evicting_unprotected never refuses
PushNeverRefused(s) == FALSE

\* the "tail is protected" early return of push_and_evicting_unprotected
PushRefused(s) ==
    s.lru_tail /= None
    /\ s.lru_nodes[s.lru_tail].last_used_batch_id = s.current_batch_id

\* push_and_evicting_unprotected reaches push_front with a mapped key: panic
PushPanics(s, glyph_id) ==
    ~PushRefused(s) /\ s.lru_map[glyph_id] /= None

\* CacheState::push_and_evicting_unprotected (for calls that do not panic)
PushAndEvictingUnprotected(s, glyph_id) ==
    IF PushRefused(s)
    THEN [st |-> s, idx |-> None]
    ELSE LET p == PushFront(s, glyph_id)
         IN  [st |-> [p.st EXCEPT !.lru_nodes[p.idx].last_used_batch_id =
                                      p.st.current_batch_id],
              idx |-> p.idx]

(***************************************************************************)
(* Fonts and glyphs: what FontStorage and fontdue answer for the glyph ids *)
(* used in the layouts.  The first NumSmall glyphs are small (one more     *)
(* than the tier of SpecScenario holds), the next is medium, the next is   *)
(* larger than every tile, the last belongs to a face that the storage     *)
(* does not resolve.                                                       *)
(***************************************************************************)
ScenarioCapacity == ScenarioTilesPerAxis * ScenarioTilesPerAxis
NumSmall == ScenarioCapacity + 1
SmallGlyphs == 1..NumSmall
MediumGlyph == NumSmall + 1
LargeGlyph == NumSmall + 2
MissingFaceGlyph == NumSmall + 3
GlyphIds == 1..MissingFaceGlyph

\* Font::metrics_indexed: "a" is a narrow glyph whose outline overhangs its
\* advance, "W" a glyph wider than the narrow limit and taller than the
\* ascent, with an advance wider than its outline, " " has no outline
MetricsIndexed(f, ch) ==
    CASE ch = "a" -> [xmin |-> 0, ymin |-> 0, width |-> 4 * f,
                      height |-> 4 * f, advance_width |-> 2 * f]
      [] ch = "W" -> [xmin |-> 0, ymin |-> 0, width |-> 6 * f,
                      height |-> 10 * f, advance_width |-> 8 * f]
      [] OTHER    -> [xmin |-> 0, ymin |-> 0, width |-> 0,
                      height |-> 0, advance_width |-> 2 * f]

\* the chars of the text runs; a char stands for its glyph index
CharCodes == <<"a", "W", " ", "LF", "TAB">>

\* GlyphId::new(font_id, glyph_index, font_size) of a glyph of a text run,
\* as a number apart from the glyph ids above (the face stands for its size)
FirstTextFaceKey == 100

GlyphKey(font_id, ch) ==
    FirstTextFaceKey * font_id + (CHOOSE c \in 1..Len(CharCodes) : CharCodes[c] = ch)

\* GlyphId::font_id and GlyphId::glyph_index of such a key
KeyFontId(g) == g \div FirstTextFaceKey

KeyGlyphIndex(g) == CharCodes[g % FirstTextFaceKey]

\* the ids of the faces that were loaded into the font storage
Fonts == {1, 2}

\* GlyphId::font_id of a glyph id
FontId(g) == IF g >= FirstTextFaceKey THEN KeyFontId(g) ELSE 1 + (g % 2)

\* FontStorage::font_db: the ids of the faces that the storage holds;
\* remove_face takes a face out of it
VARIABLE font_db

\* font_storage.font(glyph_id.font_id()) is Some
FaceResolves(g) == g /= MissingFaceGlyph /\ FontId(g) \in font_db

TextGlyphKeys == {GlyphKey(f, CharCodes[c]) : f \in 1..2, c \in 1..Len(CharCodes)}

\* font.metrics_indexed(glyph_index, font_size): width and height
GlyphMetrics(g) ==
    IF g \in SmallGlyphs THEN [width |-> 5, height |-> 6]
    ELSE IF g = MediumGlyph THEN [width |-> 10, height |-> 9]
    ELSE IF g >= FirstTextFaceKey
    THEN [width |-> MetricsIndexed(KeyFontId(g), KeyGlyphIndex(g)).width,
          height |-> MetricsIndexed(KeyFontId(g), KeyGlyphIndex(g)).height]
    ELSE [width |-> 20, height |-> 20]

Max(a, b) == IF a >= b THEN a ELSE b

MinOf(S) == CHOOSE x \in S : \A y \in S : x <= y

(***************************************************************************)
(* CacheAtlas and FallbackGpuCache.                                        *)
(***************************************************************************)
\* CacheAtlas::new (configs with tile_size * tiles_per_axis > texture_size
\* panic and are not drawn)
CacheAtlasNew(config) ==
    [tile_size      |-> config.tile_size,
     tiles_per_axis |-> config.tiles_per_axis,
     texture_size   |-> config.texture_size,
     cache_state    |-> CacheStateNew(config.tiles_per_axis * config.tiles_per_axis,
                                      GlyphIds)]

\* configs.sort_by_key(|config| config.tile_size.get()): stable insertion
RECURSIVE InsertByTileSize(_, _)
InsertByTileSize(sorted, c) ==
    IF sorted = <<>> THEN <<c>>
    ELSE IF sorted[Len(sorted)].tile_size <= c.tile_size
    THEN Append(sorted, c)
    ELSE Append(InsertByTileSize(SubSeq(sorted, 1, Len(sorted) - 1), c),
                sorted[Len(sorted)])

\* variant: the configs are left in the order supplied
SortByTileSizeSkipped(configs) == configs

RECURSIVE SortByTileSize(_)
SortByTileSize(configs) ==
    IF configs = <<>> THEN <<>>
    ELSE InsertByTileSize(SortByTileSize(SubSeq(configs, 1, Len(configs) - 1)),
                          configs[Len(configs)])

\* FallbackGpuCache::new, reached from GpuCache::new and GpuRenderer::new
FallbackGpuCacheNew(configs) ==
    LET sorted == SortByTileSize(configs)
    IN  [i \in 1..Len(sorted) |-> CacheAtlasNew(sorted[i])]

\* variant: the batch counters are left as they are
GpuCacheNewBatchSkipped(cc) == cc

\* FallbackGpuCache::new_batch
GpuCacheNewBatch(cc) ==
    [i \in 1..Len(cc) |->
        [cc[i] EXCEPT !.cache_state = CacheStateNewBatch(cc[i].cache_state)]]

\* FallbackGpuCache::clear, reached from GpuCache::clear
GpuCacheClear(cc) ==
    [i \in 1..Len(cc) |->
        [cc[i] EXCEPT !.cache_state = CacheStateClear(cc[i].cache_state)]]

\* variant: the tiles are spread over the whole texture
TileOriginSpread(atlas_tier, index) ==
    [x |-> (index % atlas_tier.tiles_per_axis)
              * (atlas_tier.texture_size \div atlas_tier.tiles_per_axis),
     y |-> (index \div atlas_tier.tiles_per_axis)
              * (atlas_tier.texture_size \div atlas_tier.tiles_per_axis)]

\* the pixel origin of a slot: CacheAtlas::get_and_protect_entry and
\* CacheAtlas::get_and_push_with_evicting_unprotected
TileOrigin(atlas_tier, index) ==
    [x |-> (index % atlas_tier.tiles_per_axis) * atlas_tier.tile_size,
     y |-> (index \div atlas_tier.tiles_per_axis) * atlas_tier.tile_size]

\* GpuCacheItem built by FallbackGpuCache::get_or_push_and_protect
GpuCacheItem(cc, i, index, g) ==
    LET o == TileOrigin(cc[i], index)
    IN  [texture_index |-> i - 1,
         texture_size  |-> cc[i].texture_size,
         glyph_box     |-> [min_x |-> o.x, min_y |-> o.y,
                            max_x |-> o.x + GlyphMetrics(g).width,
                            max_y |-> o.y + GlyphMetrics(g).height]]

NoItem == [texture_index |-> None, texture_size |-> None,
           glyph_box |-> [min_x |-> None, min_y |-> None,
                          max_x |-> None, max_y |-> None]]

\* variant: every tier is taken to be large enough
SuitableTiersAll(cc, g) == 1..Len(cc)

\* caches.iter().position(|cache| glyph_bitmap_size <= cache.tile_size):
\* the tiers (1-based) that are large enough
SuitableTiers(cc, g) ==
    LET glyph_bitmap_size ==
            Max(GlyphMetrics(g).width, GlyphMetrics(g).height) + ATLAS_MARGIN
    IN  {i \in 1..Len(cc) : glyph_bitmap_size <= cc[i].tile_size}

(***************************************************************************)
(* FixedGpuCache: GpuCache::new_with_strategy(configs, Fixed).  `caches`   *)
(* holds its tiers in SpecClassify.                                        *)
(***************************************************************************)
\* FixedGpuCache::new
FixedGpuCacheNew(configs) ==
    LET sorted == SortByTileSize(configs)
    IN  [i \in 1..Len(sorted) |-> CacheAtlasNew(sorted[i])]

\* FixedGpuCache::get_or_push_and_protect
FixedGetOrPushAndProtect(cc, g) ==
    LET failure == [caches |-> cc, item |-> NoItem, res |-> "None"]
    IN  IF ~FaceResolves(g) \/ SuitableTiers(cc, g) = {}
        THEN failure
        ELSE LET cache_index == MinOf(SuitableTiers(cc, g))
                 r == GetOrPushAndProtect(cc[cache_index].cache_state, g)
             IN  IF r.res = "None"
                 THEN failure
                 ELSE [caches |-> [cc EXCEPT ![cache_index].cache_state = r.st],
                       item |-> GpuCacheItem(cc, cache_index, r.idx, g),
                       res |-> r.res]

\* variant: the Fallback cache admits in the classified tier only
FallbackWithoutFallback(cc, g) == FixedGetOrPushAndProtect(cc, g)

\* FallbackGpuCache::get_or_push_and_protect
\* result: the tiers after the call, the item (NoItem for None) and
\* Hit / NeedToUpload / None
FallbackGetOrPushAndProtect(cc, g) ==
    LET failure == [caches |-> cc, item |-> NoItem, res |-> "None"]
    IN  IF ~FaceResolves(g) \/ SuitableTiers(cc, g) = {}
        THEN failure
        ELSE LET start_index == MinOf(SuitableTiers(cc, g))
                 \* Phase 1: the first tier from start_index that has the key
                 holding == {i \in start_index..Len(cc) :
                                cc[i].cache_state.lru_map[g] /= None}
                 \* Phase 2: the first tier from start_index that admits it
                 admitting == {i \in start_index..Len(cc) :
                                  ~PushRefused(cc[i].cache_state)}
             IN  IF holding /= {}
                 THEN LET i == MinOf(holding)
                          r == GetAndProtectEntry(cc[i].cache_state, g)
                      IN  [caches |-> [cc EXCEPT ![i].cache_state = r.st],
                           item |-> GpuCacheItem(cc, i, r.idx, g),
                           res |-> "Hit"]
                 ELSE IF admitting /= {}
                 THEN LET i == MinOf(admitting)
                          r == PushAndEvictingUnprotected(cc[i].cache_state, g)
                      IN  [caches |-> [cc EXCEPT ![i].cache_state = r.st],
                           item |-> GpuCacheItem(cc, i, r.idx, g),
                           res |-> "NeedToUpload"]
                 ELSE failure

(***************************************************************************)
(* State of the tier-level specifications.                                 *)
(*   cs        the CacheState driven by Spec and SpecFallbackTier          *)
(*   returned  the slot handed to the caller for each key since the last   *)
(*             new_batch / clear (None: not handed out)                    *)
(*   evicted   whether a call since the last new_batch / clear evicted a   *)
(*             key                                                         *)
(***************************************************************************)
VARIABLES cs, returned, evicted

(***************************************************************************)
(* State of the renderer-level specifications.                             *)
(*   caches             GpuRenderer::cache: the tiers, ascending           *)
(*   pc                 where try_render stands ("idle": not running,      *)
(*                      "done": returning `result`)                        *)
(*   layout             the TextLayout being rendered: lines of glyph ids  *)
(*   line_i, glyph_i    the position of the two loops (1-based)            *)
(*   update_atlas_list, instance_list   the locals of try_render           *)
(*   result             what the last try_render returned                  *)
(*   stream             the callback invocations of the current render, in *)
(*                      order, with the new_batch calls between them       *)
(*   atlas              the backend's textures: the update last delivered  *)
(*                      (with Ok) for each tile origin                     *)
(*   ever_failed        whether some callback has returned an error        *)
(*   last_failed        the previous try_render returned an error          *)
(*   is_retry           the current render repeats the layout of a render  *)
(*                      that has just returned an error                    *)
(*   prev_drawn         the instances the previous try_render passed to    *)
(*                      draw_instances, in order, if it returned Ok        *)
(*   is_rerender        the current render repeats the layout of a render  *)
(*                      that has just returned Ok                          *)
(*   cache0             caches when the current render started            *)
(*   glyphs_left        glyph positions that later layouts may still hold  *)
(***************************************************************************)
VARIABLES caches, pc, layout, line_i, glyph_i, update_atlas_list, instance_list,
          result, stream, atlas, ever_failed, last_failed, is_retry, cache0,
          glyphs_left, prev_drawn, is_rerender

(***************************************************************************)
(* State of the CPU glyph cache specifications.                            *)
(*   cpu_caches   GlyphCache::caches: the VecAtlas tiers, ascending        *)
(*   cpu_item     what the last GlyphCache::get returned (NoCpuItem: None, *)
(*                or no call yet)                                          *)
(*   image_size   the image_size of the last CpuRenderer::render           *)
(*   cpu_calls    the calls of the pixel callback that render made, in     *)
(*                order, each with the loop position that made it          *)
(*   cpu_recency  history: for each tier the keys that were asked of it    *)
(*                since the last clear, most recently asked first, as many *)
(*                as the tier has blocks                                   *)
(***************************************************************************)
VARIABLES cpu_caches, cpu_item, image_size, cpu_calls, cpu_recency

(***************************************************************************)
(* State of the text layout specification.                                 *)
(*   config        the TextLayoutConfig of the call                        *)
(*   texts         TextData::texts, the text elements of the call          *)
(*   text_layout   what TextData::layout returned (NoLayout: no call yet)  *)
(*   measured      what TextData::measure returned (NoMeasure: no call yet)*)
(***************************************************************************)
VARIABLES config, texts, text_layout, measured

(***************************************************************************)
(* State of the FontSystem locking specification.                          *)
(*   lock_owner        for each Mutex of FontSystem the thread that holds  *)
(*                     it, NoThread when it is free                        *)
(*   threads           for each thread the method it runs ("idle": none),  *)
(*                     the statement of the method it is in, the locks it  *)
(*                     holds, innermost last, and the locks it has yet to  *)
(*                     take in this statement                              *)
(*   renderer_present  for each renderer Mutex whether it holds Some       *)
(***************************************************************************)
VARIABLES lock_owner, threads, renderer_present

fontSystemVars == <<lock_owner, threads, renderer_present, font_db>>

layoutVars == <<config, texts, text_layout, measured>>

tierVars == <<cs, returned, evicted>>

cpuVars == <<cpu_caches, cpu_item, image_size, cpu_calls, cpu_recency>>

renderVars == <<caches, pc, layout, line_i, glyph_i, update_atlas_list,
                instance_list, result, stream, atlas, ever_failed, last_failed,
                is_retry, cache0, glyphs_left, prev_drawn, is_rerender>>

vars == <<cs, returned, evicted, caches, pc, layout, line_i, glyph_i,
          update_atlas_list, instance_list, result, stream, atlas, ever_failed,
          last_failed, is_retry, cache0, glyphs_left, prev_drawn, is_rerender,
          cpu_caches, cpu_item, image_size, cpu_calls, cpu_recency, config,
          texts, text_layout, measured, lock_owner, threads, renderer_present,
          font_db>>

nonTierVars == <<renderVars, cpuVars, layoutVars, fontSystemVars>>

nonRenderVars == <<tierVars, cpuVars, layoutVars, fontSystemVars>>

\* a GpuCacheConfig
Config(tile_size, tiles_per_axis, texture_size) ==
    [tile_size |-> tile_size, tiles_per_axis |-> tiles_per_axis,
     texture_size |-> texture_size]

\* the renderer before its first render, built by GpuRenderer::new(configs)
RendererNew(configs, n) ==
    /\ caches = FallbackGpuCacheNew(configs)
    /\ pc = "idle"
    /\ layout = <<>>
    /\ line_i = 1
    /\ glyph_i = 1
    /\ update_atlas_list = <<>>
    /\ instance_list = <<>>
    /\ result = "none"
    /\ stream = <<>>
    /\ atlas = {}
    /\ ever_failed = FALSE
    /\ last_failed = FALSE
    /\ is_retry = FALSE
    /\ prev_drawn = <<>>
    /\ is_rerender = FALSE
    /\ cache0 = FallbackGpuCacheNew(configs)
    /\ glyphs_left = n

\* no CPU glyph cache has been built
NoCpuItem == [width |-> None, height |-> None, data |-> <<>>]

CpuUnused ==
    /\ cpu_caches = <<>>
    /\ cpu_item = NoCpuItem
    /\ image_size = <<0, 0>>
    /\ cpu_calls = <<>>
    /\ cpu_recency = <<>>

\* TextLayoutConfig::default()
TextLayoutConfigDefault ==
    [max_width |-> None, max_height |-> None, horizontal_align |-> "Left",
     vertical_align |-> "Top", line_height_scale |-> 1,
     wrap_style |-> "NoWrap", wrap_hard_break |-> TRUE]

\* no TextLayout has been returned
NoLayout == [total_height |-> None, total_width |-> None, lines |-> <<>>]

\* no measure has been returned
NoMeasure == <<None, None>>

\* no thread is inside a method of a FontSystem, and the font storage holds
\* every face
LocksUnused ==
    /\ lock_owner = <<>>
    /\ threads = <<>>
    /\ renderer_present = <<>>
    /\ font_db = Fonts

\* no text has been laid out
LayoutUnused ==
    /\ config = TextLayoutConfigDefault
    /\ texts = <<>>
    /\ text_layout = NoLayout
    /\ measured = NoMeasure

MappedKeys(s) == {g \in DOMAIN s.lru_map : s.lru_map[g] /= None}

Evicted(s, t) == MappedKeys(s) \ MappedKeys(t)

NoneReturned == [g \in Keys |-> None]

TierInit ==
    /\ cs = CacheStateNew(TierCapacity, Keys)
    /\ returned = NoneReturned
    /\ evicted = FALSE
    /\ RendererNew(<<Config(8, 1, 8)>>, 0)
    /\ CpuUnused
    /\ LayoutUnused
    /\ LocksUnused

\* a call of get_or_push_and_protect(&glyph_id) on the tier
TierGetOrPushAndProtect(g) ==
    LET r == GetOrPushAndProtect(cs, g)
    IN  /\ UNCHANGED nonTierVars
        /\ cs' = r.st
        /\ returned' = IF r.idx /= None THEN [returned EXCEPT ![g] = r.idx] ELSE returned
        /\ evicted' = (evicted \/ Evicted(cs, r.st) /= {})

\* a call of get_and_protect_entry(&glyph_id) on the tier
TierGetAndProtectEntry(g) ==
    LET r == GetAndProtectEntry(cs, g)
    IN  /\ UNCHANGED nonTierVars
        /\ cs' = r.st
        /\ returned' = IF r.idx /= None THEN [returned EXCEPT ![g] = r.idx] ELSE returned
        /\ evicted' = (evicted \/ Evicted(cs, r.st) /= {})

\* a call of push_and_evicting_unprotected(&glyph_id) on the tier that does
\* not run into the panic of push_front
TierPushAndEvictingUnprotected(g) ==
    /\ ~PushPanics(cs, g)
    /\ LET r == PushAndEvictingUnprotected(cs, g)
       IN  /\ UNCHANGED nonTierVars
           /\ cs' = r.st
           /\ returned' = IF r.idx /= None THEN [returned EXCEPT ![g] = r.idx]
                          ELSE returned
           /\ evicted' = (evicted \/ Evicted(cs, r.st) /= {})

\* the same call as the Fallback strategy makes it: after get_and_protect_entry
\* missed, hence with a key that is not in the tier
TierPushAbsent(g) ==
    /\ cs.lru_map[g] = None
    /\ TierPushAndEvictingUnprotected(g)

\* a call of new_batch(), as long as the counter stays below MaxBatch
TierNewBatch ==
    /\ cs.current_batch_id < MaxBatch
    /\ UNCHANGED nonTierVars
    /\ cs' = CacheStateNewBatch(cs)
    /\ returned' = NoneReturned
    /\ evicted' = FALSE

\* a call of clear()
TierClear ==
    /\ UNCHANGED nonTierVars
    /\ cs' = CacheStateClear(cs)
    /\ returned' = NoneReturned
    /\ evicted' = FALSE

Init == TierInit

Next ==
    \/ \E g \in Keys : TierGetOrPushAndProtect(g)
    \/ \E g \in Keys : TierGetAndProtectEntry(g)
    \/ \E g \in Keys : TierPushAndEvictingUnprotected(g)
    \/ TierNewBatch
    \/ TierClear

Spec == Init /\ [][Next]_vars

\* the tier as the Fallback strategy drives it
NextFallbackTier ==
    \/ \E g \in Keys : TierGetAndProtectEntry(g)
    \/ \E g \in Keys : TierPushAbsent(g)
    \/ TierNewBatch
    \/ TierClear

SpecFallbackTier == Init /\ [][NextFallbackTier]_vars

(***************************************************************************)
(* Helpers of the properties of one tier.                                  *)
(***************************************************************************)
Slots(s) == 0..(s.capacity - 1)

FreeSlots(s) == {s.lru_empties[i] : i \in 1..Len(s.lru_empties)}

MappedSlots(s) == {s.lru_map[g] : g \in MappedKeys(s)}

\* slot i holds a key and is stamped with the current batch id
Pinned(s, i) ==
    /\ i \in MappedSlots(s)
    /\ s.lru_nodes[i].last_used_batch_id = s.current_batch_id

AllPinned(s) == \A i \in Slots(s) : Pinned(s, i)

\* the slots met when walking from lru_head through `older`, n steps at most
RECURSIVE Walk(_, _, _)
Walk(s, i, n) ==
    IF i = None \/ n = 0 THEN <<>>
    ELSE <<i>> \o Walk(s, s.lru_nodes[i].older, n - 1)

LruList(s) == Walk(s, s.lru_head, s.capacity + 1)

ListedSlots(s) == {LruList(s)[k] : k \in 1..Len(LruList(s))}

\* C1: between two new_batch calls (no clear between), every key that an
\* operation returned to the caller is still mapped to the slot it was
\* returned with, that slot still stores the key, and no other key maps to it.
C1_BatchSafety ==
    \A g \in Keys :
        returned[g] /= None =>
            /\ cs.lru_map[g] = returned[g]
            /\ cs.lru_nodes[returned[g]].glyph_id = g
            /\ \A h \in Keys \ {g} : cs.lru_map[h] /= returned[g]

\* an admission of this batch evicted a key while other keys were handed out
\* in the same batch
C1_Witness ==
    /\ evicted
    /\ Cardinality({g \in Keys : returned[g] /= None}) >= 2

C4_PushFailsOnlyWhenAllPinned ==
    \A g \in Keys :
        (cs.lru_map[g] = None /\ PushAndEvictingUnprotected(cs, g).idx = None) =>
            (AllPinned(cs) /\ Len(cs.lru_empties) = 0)

\* C6: the key-to-slot map and the LRU list agree.
C6_MapListCoherence ==
    LET list == LruList(cs)
        n == Len(list)
    IN  \* map size = capacity - free slots
        /\ Cardinality(MappedKeys(cs)) = cs.capacity - Len(cs.lru_empties)
        \* distinct keys map to distinct slots
        /\ Cardinality(MappedSlots(cs)) = Cardinality(MappedKeys(cs))
        \* the walk visits exactly the mapped slots, each once
        /\ ListedSlots(cs) = MappedSlots(cs)
        /\ n = Cardinality(MappedSlots(cs))
        \* and ends at lru_tail
        /\ IF n = 0
           THEN cs.lru_head = None /\ cs.lru_tail = None
           ELSE /\ list[1] = cs.lru_head
                /\ list[n] = cs.lru_tail
                /\ cs.lru_nodes[cs.lru_head].newer = None
                /\ cs.lru_nodes[cs.lru_tail].older = None
        \* newer and older are mutual inverses
        /\ \A i \in ListedSlots(cs) :
              /\ cs.lru_nodes[i].older /= None =>
                    cs.lru_nodes[cs.lru_nodes[i].older].newer = i
              /\ cs.lru_nodes[i].newer /= None =>
                    /\ cs.lru_nodes[i].newer \in ListedSlots(cs)
                    /\ cs.lru_nodes[cs.lru_nodes[i].newer].older = i
        \* the key stored in a listed slot maps back to the slot
        /\ \A i \in ListedSlots(cs) :
              /\ cs.lru_nodes[i].glyph_id /= NoGlyph
              /\ cs.lru_map[cs.lru_nodes[i].glyph_id] = i
        /\ \A g \in MappedKeys(cs) : cs.lru_nodes[cs.lru_map[g]].glyph_id = g
        \* no slot is both free and listed, and no slot is free twice
        /\ FreeSlots(cs) \cap ListedSlots(cs) = {}
        /\ Cardinality(FreeSlots(cs)) = Len(cs.lru_empties)
        /\ FreeSlots(cs) \cup ListedSlots(cs) = Slots(cs)

\* at least two keys are listed, and the slot that is filled first (the last
\* of lru_empties) is at the head again, with a newer stamp than the node
\* behind it: it was touched again, or evicted and reused, in a later batch
C6_Witness ==
    /\ Cardinality(MappedKeys(cs)) >= 2
    /\ cs.lru_head = cs.capacity - 1
    /\ cs.lru_nodes[cs.lru_head].last_used_batch_id /=
           cs.lru_nodes[cs.lru_nodes[cs.lru_head].older].last_used_batch_id

(***************************************************************************)
(* GpuRenderer::try_render, one action per callback invocation and per     *)
(* glyph of the layout.                                                    *)
(***************************************************************************)
\* what a callback returns: Ok(()) or Err(e) for one of two error values
Outcomes == {"Ok", "E1", "E2"}

\* AtlasUpdate pushed for a NeedToUpload glyph; pixels: the bitmap of glyph g
AtlasUpdate(item, g) ==
    [texture_index |-> item.texture_index,
     x |-> item.glyph_box.min_x,
     y |-> item.glyph_box.min_y,
     width |-> item.glyph_box.max_x - item.glyph_box.min_x,
     height |-> item.glyph_box.max_y - item.glyph_box.min_y,
     pixels |-> g]

\* GlyphInstance; uv_rect is glyph_box / texture_size, kept as the pair;
\* glyph stands for the screen_rect and user_data of the layout position
GlyphInstance(item, g) ==
    [texture_index |-> item.texture_index,
     uv_rect |-> [box |-> item.glyph_box, texture_size |-> item.texture_size],
     glyph |-> g]

\* StandaloneGlyph built from font.rasterize_indexed
StandaloneGlyph(g) ==
    [width |-> GlyphMetrics(g).width, height |-> GlyphMetrics(g).height,
     pixels |-> g, glyph |-> g]

Event(kind, items, outcome) == [kind |-> kind, items |-> items, outcome |-> outcome]

\* the backend stores the updates of one update_atlas call, in order
RECURSIVE ApplyUpdates(_, _)
ApplyUpdates(a, updates) ==
    IF updates = <<>> THEN a
    ELSE LET u == updates[1]
             kept == {e \in a : ~(e.texture_index = u.texture_index
                                  /\ e.x = u.x /\ e.y = u.y)}
         IN  ApplyUpdates(kept \cup {[texture_index |-> u.texture_index,
                                      x |-> u.x, y |-> u.y, pixels |-> u.pixels]},
                          SubSeq(updates, 2, Len(updates)))

\* the loops `for line in &layout.lines` / `for glyph in &line.glyphs`:
\* the position of the next glyph at or after (li, gi); li = Len(l) + 1 when
\* the loops are over
RECURSIVE LoopPosition(_, _, _)
LoopPosition(l, li, gi) ==
    IF li > Len(l) THEN [line_i |-> Len(l) + 1, glyph_i |-> 1]
    ELSE IF gi > Len(l[li]) THEN LoopPosition(l, li + 1, 1)
    ELSE [line_i |-> li, glyph_i |-> gi]

\* where try_render goes after the glyph at (line_i, glyph_i): to the next
\* glyph, or past the loops to the final flush (lines 224-232)
AfterGlyph(upd, inst) ==
    LET p == LoopPosition(layout, line_i, glyph_i + 1)
    IN  /\ line_i' = p.line_i
        /\ glyph_i' = p.glyph_i
        /\ IF p.line_i <= Len(layout)
           THEN pc' = "glyph" /\ result' = result
           ELSE IF upd /= <<>>
           THEN pc' = "final_update" /\ result' = result
           ELSE IF inst /= <<>>
           THEN pc' = "final_draw" /\ result' = result
           ELSE pc' = "done" /\ result' = "Ok"

\* variant: a Hit is not pushed to instance_list
AdmittedDropsHit(r, g) ==
    LET inst == IF r.res = "NeedToUpload"
                THEN Append(instance_list, GlyphInstance(r.item, g))
                ELSE instance_list
        upd == IF r.res = "NeedToUpload"
               THEN Append(update_atlas_list, AtlasUpdate(r.item, g))
               ELSE update_atlas_list
    IN  /\ instance_list' = inst
        /\ update_atlas_list' = upd
        /\ AfterGlyph(upd, inst)

\* lines 183-220: push the instance, and the update on NeedToUpload
Admitted(r, g) ==
    LET inst == Append(instance_list, GlyphInstance(r.item, g))
        upd == IF r.res = "NeedToUpload"
               THEN Append(update_atlas_list, AtlasUpdate(r.item, g))
               ELSE update_atlas_list
    IN  /\ instance_list' = inst
        /\ update_atlas_list' = upd
        /\ AfterGlyph(upd, inst)

\* variant: the error returned is not the callback's own
ReturnErrReplaced(e) ==
    /\ pc' = "done"
    /\ result' = "E1"
    /\ ever_failed' = TRUE

\* `?` on a callback error: try_render returns Err(e)
ReturnErr(e) ==
    /\ pc' = "done"
    /\ result' = e
    /\ ever_failed' = TRUE

\* the layouts with n glyph positions at most, in two lines at most
RECURSIVE SeqsUpTo(_, _)
SeqsUpTo(S, n) ==
    IF n = 0 THEN {<<>>}
    ELSE LET shorter == SeqsUpTo(S, n - 1)
         IN  shorter \cup {Append(s, x) : s \in {q \in shorter : Len(q) = n - 1},
                                          x \in S}

LayoutsOver(S, n) ==
    {<<>>} \cup {<<f>> : f \in SeqsUpTo(S, n)}
           \cup UNION {{<<SubSeq(f, 1, k), SubSeq(f, k + 1, Len(f))>> :
                           k \in 0..Len(f)} : f \in SeqsUpTo(S, n)}

GlyphCount(l) == IF Len(l) = 0 THEN 0
                 ELSE IF Len(l) = 1 THEN Len(l[1])
                 ELSE Len(l[1]) + Len(l[2])

\* try_render is called with layout l (lines 115-118)
RenderStart(l) ==
    /\ pc = "idle"
    /\ GlyphCount(l) <= glyphs_left
    /\ glyphs_left' = glyphs_left - GlyphCount(l)
    /\ layout' = l
    /\ is_retry' = (last_failed /\ l = layout)
    /\ is_rerender' = (~last_failed /\ l = layout)
    /\ cache0' = caches
    /\ update_atlas_list' = <<>>
    /\ instance_list' = <<>>
    /\ stream' = <<>>
    /\ LET p == LoopPosition(l, 1, 1)
       IN  /\ line_i' = p.line_i
           /\ glyph_i' = p.glyph_i
           /\ IF p.line_i <= Len(l)
              THEN pc' = "glyph" /\ result' = "none"
              ELSE pc' = "done" /\ result' = "Ok"
    /\ UNCHANGED <<caches, atlas, ever_failed, last_failed, prev_drawn>>
    /\ UNCHANGED nonRenderVars

\* one iteration of 'glyph_loop up to its first callback (lines 119-140)
RenderGlyph ==
    /\ pc = "glyph"
    /\ LET g == layout[line_i][glyph_i]
           r == FallbackGetOrPushAndProtect(caches, g)
       IN  IF ~FaceResolves(g)
           THEN \* continue 'glyph_loop
                /\ AfterGlyph(update_atlas_list, instance_list)
                /\ UNCHANGED <<caches, update_atlas_list, instance_list>>
           ELSE IF r.res /= "None"
           THEN /\ caches' = r.caches
                /\ Admitted(r, g)
           ELSE \* admission failed: flush (lines 141-151)
                /\ pc' = IF update_atlas_list /= <<>> THEN "flush_update"
                         ELSE IF instance_list /= <<>> THEN "flush_draw"
                         ELSE "retry"
                /\ UNCHANGED <<caches, update_atlas_list, instance_list,
                               line_i, glyph_i, result>>
    /\ UNCHANGED <<layout, stream, atlas, ever_failed, last_failed, is_retry, prev_drawn, is_rerender, cache0, glyphs_left>>
    /\ UNCHANGED nonRenderVars

\* update_atlas(&update_atlas_list)? of the flush (lines 142-145)
RenderFlushUpdate(o) ==
    /\ pc = "flush_update"
    /\ stream' = Append(stream, Event("update_atlas", update_atlas_list, o))
    /\ IF o = "Ok"
       THEN /\ atlas' = ApplyUpdates(atlas, update_atlas_list)
            /\ update_atlas_list' = <<>>
            /\ pc' = IF instance_list /= <<>> THEN "flush_draw" ELSE "retry"
            /\ UNCHANGED <<result, ever_failed>>
       ELSE /\ ReturnErr(o)
            /\ UNCHANGED <<atlas, update_atlas_list>>
    /\ UNCHANGED <<caches, layout, line_i, glyph_i, instance_list, last_failed, is_retry, prev_drawn, is_rerender,
                   cache0, glyphs_left>>
    /\ UNCHANGED nonRenderVars

\* draw_instances(&instance_list)? of the flush (lines 148-151)
RenderFlushDraw(o) ==
    /\ pc = "flush_draw"
    /\ stream' = Append(stream, Event("draw_instances", instance_list, o))
    /\ IF o = "Ok"
       THEN /\ instance_list' = <<>>
            /\ pc' = "retry"
            /\ UNCHANGED <<result, ever_failed>>
       ELSE /\ ReturnErr(o)
            /\ UNCHANGED instance_list
    /\ UNCHANGED <<caches, layout, line_i, glyph_i, update_atlas_list, atlas,
                   last_failed, is_retry, prev_drawn, is_rerender, cache0, glyphs_left>>
    /\ UNCHANGED nonRenderVars

\* self.cache.new_batch() and the second get_or_push_and_protect
\* (lines 153-179)
RenderRetry ==
    /\ pc = "retry"
    /\ LET g == layout[line_i][glyph_i]
           batched == GpuCacheNewBatch(caches)
           r == FallbackGetOrPushAndProtect(batched, g)
       IN  /\ caches' = r.caches
           /\ IF r.res /= "None"
              THEN Admitted(r, g)
              ELSE /\ pc' = "standalone"
                   /\ UNCHANGED <<update_atlas_list, instance_list, line_i,
                                  glyph_i, result>>
    /\ stream' = Append(stream, Event("new_batch", <<>>, "Ok"))
    /\ UNCHANGED <<layout, atlas, ever_failed, last_failed, is_retry, prev_drawn, is_rerender, cache0, glyphs_left>>
    /\ UNCHANGED nonRenderVars

\* draw_standalone(&isolate)? (lines 157-176)
RenderStandalone(o) ==
    /\ pc = "standalone"
    /\ LET g == layout[line_i][glyph_i]
       IN  stream' = Append(stream, Event("draw_standalone", <<StandaloneGlyph(g)>>, o))
    /\ IF o = "Ok"
       THEN /\ AfterGlyph(update_atlas_list, instance_list)
            /\ UNCHANGED ever_failed
       ELSE /\ ReturnErr(o)
            /\ UNCHANGED <<line_i, glyph_i>>
    /\ UNCHANGED <<caches, layout, update_atlas_list, instance_list, atlas,
                   last_failed, is_retry, prev_drawn, is_rerender, cache0, glyphs_left>>
    /\ UNCHANGED nonRenderVars

\* update_atlas(&update_atlas_list)? after the loops (lines 224-226)
RenderFinalUpdate(o) ==
    /\ pc = "final_update"
    /\ stream' = Append(stream, Event("update_atlas", update_atlas_list, o))
    /\ IF o = "Ok"
       THEN /\ atlas' = ApplyUpdates(atlas, update_atlas_list)
            /\ IF instance_list /= <<>>
               THEN pc' = "final_draw" /\ result' = result
               ELSE pc' = "done" /\ result' = "Ok"
            /\ UNCHANGED ever_failed
       ELSE /\ ReturnErr(o)
            /\ UNCHANGED atlas
    /\ UNCHANGED <<caches, layout, line_i, glyph_i, update_atlas_list,
                   instance_list, last_failed, is_retry, prev_drawn, is_rerender, cache0, glyphs_left>>
    /\ UNCHANGED nonRenderVars

\* draw_instances(&instance_list)? after the loops, and Ok(()) (lines 228-232)
RenderFinalDraw(o) ==
    /\ pc = "final_draw"
    /\ stream' = Append(stream, Event("draw_instances", instance_list, o))
    /\ IF o = "Ok"
       THEN /\ pc' = "done"
            /\ result' = "Ok"
            /\ UNCHANGED ever_failed
       ELSE ReturnErr(o)
    /\ UNCHANGED <<caches, layout, line_i, glyph_i, update_atlas_list,
                   instance_list, atlas, last_failed, is_retry, prev_drawn, is_rerender, cache0, glyphs_left>>
    /\ UNCHANGED nonRenderVars

\* the instances passed to draw_instances, in call order
RECURSIVE DrawnInstances(_)
DrawnInstances(st) ==
    IF st = <<>> THEN <<>>
    ELSE (IF st[1].kind = "draw_instances" THEN st[1].items ELSE <<>>)
         \o DrawnInstances(SubSeq(st, 2, Len(st)))

\* try_render has returned `result` to its caller; its locals are dropped
RenderReturn ==
    /\ pc = "done"
    /\ pc' = "idle"
    /\ last_failed' = (result /= "Ok")
    /\ prev_drawn' = IF result = "Ok" THEN DrawnInstances(stream) ELSE <<>>
    /\ is_rerender' = FALSE
    /\ result' = "none"
    /\ is_retry' = FALSE
    /\ update_atlas_list' = <<>>
    /\ instance_list' = <<>>
    /\ stream' = <<>>
    /\ line_i' = 1
    /\ glyph_i' = 1
    /\ cache0' = caches
    /\ UNCHANGED <<caches, layout, atlas, ever_failed, glyphs_left>>
    /\ UNCHANGED nonRenderVars

\* GpuRenderer::clear_cache, between two renders
RenderClearCache ==
    /\ pc = "idle"
    /\ caches' = GpuCacheClear(caches)
    /\ cache0' = GpuCacheClear(caches)
    /\ UNCHANGED <<pc, layout, line_i, glyph_i, update_atlas_list, instance_list,
                   result, stream, atlas, ever_failed, last_failed, is_retry, prev_drawn, is_rerender,
                   glyphs_left>>
    /\ UNCHANGED nonRenderVars

\* the cache configurations and the glyphs of the layouts of SpecRender
ConfigChoices ==
    {<<Config(8, 1, 8)>>,
     <<Config(16, 1, 16), Config(8, 1, 8)>>}

LayoutGlyphs == {1, 2, MediumGlyph, LargeGlyph, MissingFaceGlyph}

RenderLayouts == LayoutsOver(LayoutGlyphs, MaxGlyphs)

InitRender ==
    /\ cs = CacheStateNew(TierCapacity, Keys)
    /\ returned = NoneReturned
    /\ evicted = FALSE
    /\ \E configs \in ConfigChoices : RendererNew(configs, MaxGlyphs)
    /\ CpuUnused
    /\ LayoutUnused
    /\ LocksUnused

NextRender ==
    \/ \E l \in RenderLayouts : RenderStart(l)
    \/ RenderGlyph
    \/ \E o \in Outcomes : RenderFlushUpdate(o)
    \/ \E o \in Outcomes : RenderFlushDraw(o)
    \/ RenderRetry
    \/ \E o \in Outcomes : RenderStandalone(o)
    \/ \E o \in Outcomes : RenderFinalUpdate(o)
    \/ \E o \in Outcomes : RenderFinalDraw(o)
    \/ RenderReturn
    \/ RenderClearCache

SpecRender == InitRender /\ [][NextRender]_vars

(***************************************************************************)
(* SpecScenario: GpuRenderer::new with one tier of ScenarioCapacity tiles  *)
(* that takes every small glyph; the layouts are g1..gk, k up to one more  *)
(* than the capacity, in one or two lines.  No glyph of these layouts can  *)
(* reach draw_standalone (the retry after new_batch always admits), so     *)
(* that callback is not among the steps.                                   *)
(***************************************************************************)
ScenarioConfigs ==
    <<Config(8, ScenarioTilesPerAxis, 8 * ScenarioTilesPerAxis)>>

FirstGlyphs(k) == [i \in 1..k |-> i]

ScenarioLayouts ==
    UNION {{<<FirstGlyphs(k)>>} \cup
           {<<SubSeq(FirstGlyphs(k), 1, j), SubSeq(FirstGlyphs(k), j + 1, k)>> :
                j \in 0..k} : k \in 0..NumSmall}

InitScenario ==
    /\ cs = CacheStateNew(TierCapacity, Keys)
    /\ returned = NoneReturned
    /\ evicted = FALSE
    /\ RendererNew(ScenarioConfigs, NumSmall)
    /\ CpuUnused
    /\ LayoutUnused
    /\ LocksUnused

NextScenario ==
    \/ \E l \in ScenarioLayouts : RenderStart(l)
    \/ RenderGlyph
    \/ \E o \in Outcomes : RenderFlushUpdate(o)
    \/ \E o \in Outcomes : RenderFlushDraw(o)
    \/ RenderRetry
    \/ \E o \in Outcomes : RenderFinalUpdate(o)
    \/ \E o \in Outcomes : RenderFinalDraw(o)
    \/ RenderReturn

SpecScenario == InitScenario /\ [][NextScenario]_vars

(***************************************************************************)
(* Properties of the renderer.                                             *)
(***************************************************************************)
LastEvent == stream[Len(stream)]

\* the tile an instance samples (uv_rect.min * texture_size in its texture)
\* together with the glyph the instance is drawn for
InstanceTile(inst) ==
    [texture_index |-> inst.texture_index,
     x |-> inst.uv_rect.box.min_x,
     y |-> inst.uv_rect.box.min_y,
     pixels |-> inst.glyph]

\* every instance of a draw_instances event finds its glyph's bitmap as the
\* update last delivered to its tile
TilesHoldGlyphs(e) ==
    \A k \in 1..Len(e.items) : InstanceTile(e.items[k]) \in atlas

AllOk(st) == \A i \in 1..Len(st) : st[i].outcome = "Ok"

Kinds(st) == [i \in 1..Len(st) |-> st[i].kind]

\* the glyphs of the instances of a draw, the bitmaps of the updates
DrawnGlyphs(e) == [k \in 1..Len(e.items) |-> e.items[k].glyph]

UploadedGlyphs(e) == [k \in 1..Len(e.items) |-> e.items[k].pixels]

\* C2: with callbacks that have all succeeded, over all the renders of a
\* renderer, at every draw_instances call each instance's tile holds, as
\* the update most recently delivered to it, the bitmap of the instance's
\* glyph.
C2_DrawSeesOwnUpload ==
    (~ever_failed /\ stream /= <<>> /\ LastEvent.kind = "draw_instances")
        => TilesHoldGlyphs(LastEvent)

\* a draw whose tile an earlier draw of the same render used for another
\* glyph
C2_Witness ==
    /\ ~ever_failed
    /\ stream /= <<>>
    /\ LastEvent.kind = "draw_instances"
    /\ \E i \in 1..(Len(stream) - 1) :
          /\ stream[i].kind = "draw_instances"
          /\ \E a \in 1..Len(stream[i].items), b \in 1..Len(LastEvent.items) :
                LET p == InstanceTile(stream[i].items[a])
                    q == InstanceTile(LastEvent.items[b])
                IN  /\ p.texture_index = q.texture_index
                    /\ p.x = q.x /\ p.y = q.y
                    /\ p.pixels /= q.pixels

\* C5: on an initially empty one-tier cache of capacity C, the render of
\* g1..g(C+1) produces exactly: one update_atlas with g1..gC, one
\* draw_instances with g1..gC, new_batch, one update_atlas with g(C+1) in
\* the tile that held g1, one draw_instances with g(C+1).
C5_EvictionStream ==
    (/\ pc = "done"
     /\ result = "Ok"
     /\ cache0 = FallbackGpuCacheNew(ScenarioConfigs)
     /\ GlyphCount(layout) = NumSmall)
        => /\ Kinds(stream) = <<"update_atlas", "draw_instances", "new_batch",
                               "update_atlas", "draw_instances">>
           /\ UploadedGlyphs(stream[1]) = FirstGlyphs(ScenarioCapacity)
           /\ DrawnGlyphs(stream[2]) = FirstGlyphs(ScenarioCapacity)
           /\ UploadedGlyphs(stream[4]) = <<NumSmall>>
           /\ stream[4].items[1].texture_index = stream[1].items[1].texture_index
           /\ stream[4].items[1].x = stream[1].items[1].x
           /\ stream[4].items[1].y = stream[1].items[1].y
           /\ DrawnGlyphs(stream[5]) = <<NumSmall>>

\* the glyphs of the layout in reading order
RECURSIVE ReadingOrder(_)
ReadingOrder(l) ==
    IF l = <<>> THEN <<>> ELSE l[1] \o ReadingOrder(SubSeq(l, 2, Len(l)))

\* the glyphs handed to draw_instances and draw_standalone, in call order
RECURSIVE Emitted(_)
Emitted(st) ==
    IF st = <<>> THEN <<>>
    ELSE (IF st[1].kind \in {"draw_instances", "draw_standalone"}
          THEN DrawnGlyphs(st[1]) ELSE <<>>) \o Emitted(SubSeq(st, 2, Len(st)))

IsPrefix(s, q) == Len(s) <= Len(q) /\ SubSeq(q, 1, Len(s)) = s

\* C7: a try_render whose callbacks succeed emits the layout's glyphs whose
\* face resolves, each once, as instances or standalone glyphs, in reading
\* order (what has been emitted so far is always a prefix of that order),
\* and no update_atlas or draw_instances slice is empty.
C7_ReadingOrder ==
    /\ \A i \in 1..Len(stream) :
          stream[i].kind /= "new_batch" => stream[i].items /= <<>>
    /\ pc /= "idle" =>
          IsPrefix(Emitted(stream), SelectSeq(ReadingOrder(layout), FaceResolves))
    /\ (pc = "done" /\ result = "Ok") =>
          Emitted(stream) = SelectSeq(ReadingOrder(layout), FaceResolves)

\* a completed render of two lines that drew instances and a standalone glyph
C7_Witness ==
    /\ pc = "done"
    /\ result = "Ok"
    /\ Len(layout) = 2
    /\ \E i, j \in 1..Len(stream) :
          stream[i].kind = "draw_instances" /\ stream[j].kind = "draw_standalone"

\* C8: when a callback returns Err(e), try_render returns Err(e) and calls
\* no callback after it: a failed callback is the last event of its render
\* and its error is what the render returns; a render returns an error only
\* so.
C8_FirstErrorStops ==
    /\ \A i \in 1..Len(stream) :
          stream[i].outcome /= "Ok"
              => i = Len(stream) /\ pc = "done" /\ result = stream[i].outcome
    /\ (pc = "done" /\ result /= "Ok")
          => stream /= <<>> /\ LastEvent.outcome = result

\* a render that returns the second error value after a callback succeeded
C8_Witness ==
    /\ pc = "done"
    /\ result = "E2"
    /\ Len(stream) >= 2
    /\ LastEvent.outcome = "E2"

\* C9: in a try_render that repeats the layout of a render that returned a
\* callback error, with callbacks that succeed, every instance drawn has a
\* tile whose bitmap was delivered by an update_atlas that returned Ok.
C9_RetryDrawsUploadedTiles ==
    (/\ is_retry
     /\ stream /= <<>>
     /\ AllOk(stream)
     /\ LastEvent.kind = "draw_instances")
        => TilesHoldGlyphs(LastEvent)

\* C10: when try_render returns a callback's error the glyph cache is as it
\* was when the call began.
C10_CacheUnchangedOnError ==
    (pc = "done" /\ result /= "Ok") => caches = cache0

(***************************************************************************)
(* Standalone glyphs.                                                      *)
(***************************************************************************)
\* the glyph try_render is working on between "glyph" and "standalone"
CurrentGlyph == layout[line_i][glyph_i]

AtGlyph == pc \in {"glyph", "flush_update", "flush_draw", "retry", "standalone"}

\* max(width, height) + 2 exceeds the tile size of every tier
FitsNoTier(cc, g) ==
    \A i \in 1..Len(cc) :
        Max(GlyphMetrics(g).width, GlyphMetrics(g).height) + 2 > cc[i].tile_size

\* the cached keys and their slots, tier by tier
KeysAndSlots(cc) == [i \in 1..Len(cc) |-> cc[i].cache_state.lru_map]

\* the draw_standalone calls of a render, in order
RECURSIVE StandaloneCalls(_)
StandaloneCalls(st) ==
    IF st = <<>> THEN <<>>
    ELSE (IF st[1].kind = "draw_standalone" THEN st[1].items ELSE <<>>)
         \o StandaloneCalls(SubSeq(st, 2, Len(st)))

\* what draw_standalone must receive for the glyphs of a sequence that fit
\* no tier
RECURSIVE ExpectedStandalone(_, _)
ExpectedStandalone(cc, gs) ==
    IF gs = <<>> THEN <<>>
    ELSE (IF FaceResolves(gs[1]) /\ FitsNoTier(cc, gs[1])
          THEN <<[width |-> GlyphMetrics(gs[1]).width,
                  height |-> GlyphMetrics(gs[1]).height,
                  pixels |-> gs[1], glyph |-> gs[1]]>>
          ELSE <<>>)
         \o ExpectedStandalone(cc, SubSeq(gs, 2, Len(gs)))

\* C11: while try_render works on a glyph that fits no tier, no instance
\* and no atlas update is added and the cached keys keep their slots; the
\* glyph goes to draw_standalone with its width, height and bitmap, and a
\* render that returns Ok has made exactly one such call per position of a
\* glyph that fits no tier (and none for any other glyph).
C11_StandaloneBypassesCache ==
    [][/\ (AtGlyph /\ FaceResolves(CurrentGlyph) /\ FitsNoTier(caches, CurrentGlyph))
            => /\ KeysAndSlots(caches') = KeysAndSlots(caches)
               /\ Len(instance_list') <= Len(instance_list)
               /\ Len(update_atlas_list') <= Len(update_atlas_list)
               /\ pc' \in {"flush_update", "flush_draw", "retry", "standalone",
                           "done"} \/ pc = "standalone"
               /\ pc = "standalone" =>
                     /\ Len(stream') = Len(stream) + 1
                     /\ stream'[Len(stream')].kind = "draw_standalone"
                     /\ stream'[Len(stream')].items =
                            ExpectedStandalone(caches, <<CurrentGlyph>>)
       /\ (pc' = "done" /\ result' = "Ok")
            => StandaloneCalls(stream') =
                   ExpectedStandalone(caches', ReadingOrder(layout'))
      ]_vars

\* a completed render that drew a glyph fitting no tier as standalone while
\* the cache held a key
C11_Witness ==
    /\ pc = "done"
    /\ result = "Ok"
    /\ StandaloneCalls(stream) /= <<>>
    /\ \E i \in 1..Len(caches) : MappedKeys(caches[i].cache_state) /= {}

(***************************************************************************)
(* SpecWrap: the tier of Spec with new_batch called without limit, so that *)
(* the batch counter wraps around.                                         *)
(***************************************************************************)
\* a call of new_batch(), any number of times
TierNewBatchWrapping ==
    /\ UNCHANGED nonTierVars
    /\ cs' = CacheStateNewBatch(cs)
    /\ returned' = NoneReturned
    /\ evicted' = FALSE

NextWrap ==
    \/ \E g \in Keys : TierGetOrPushAndProtect(g)
    \/ \E g \in Keys : TierGetAndProtectEntry(g)
    \/ \E g \in Keys : TierPushAndEvictingUnprotected(g)
    \/ TierNewBatchWrapping
    \/ TierClear

SpecWrap == Init /\ [][NextWrap]_vars

\* C12: right after new_batch() no occupied slot is stamped with the new
\* current batch id, also when the counter has wrapped, and so the
\* admission of any absent key by get_or_push_and_protect succeeds.
C12_NewBatchUnpinsAll ==
    [][cs' = CacheStateNewBatch(cs)
          => /\ \A i \in MappedSlots(cs') : ~Pinned(cs', i)
             /\ \A g \in Keys :
                   cs'.lru_map[g] = None
                       => GetOrPushAndProtect(cs', g).res /= "None"
      ]_vars

(***************************************************************************)
(* clear() against CacheState::new.                                        *)
(***************************************************************************)
\* the tier with the nodes of its free slots as CacheState::new leaves them:
\* what a tier built by new() and driven by the calls made since the last
\* clear() looks like (a slot leaves the free list only by admission and
\* comes back only by clear)
Normalize(s) ==
    [s EXCEPT !.lru_nodes = [i \in DOMAIN s.lru_nodes |->
                                IF i \in FreeSlots(s) THEN LruNodeDefault
                                ELSE s.lru_nodes[i]]]

\* one call on s and the same call on t: same slot, same result, and the
\* tiers correspond afterwards
SameGetOrPush(s, t, g) ==
    LET a == GetOrPushAndProtect(s, g)
        b == GetOrPushAndProtect(t, g)
    IN  a.idx = b.idx /\ a.res = b.res /\ Normalize(a.st) = b.st

SameGet(s, t, g) ==
    LET a == GetAndProtectEntry(s, g)
        b == GetAndProtectEntry(t, g)
    IN  a.idx = b.idx /\ Normalize(a.st) = b.st

SamePush(s, t, g) ==
    /\ PushPanics(s, g) = PushPanics(t, g)
    /\ ~PushPanics(s, g) =>
          LET a == PushAndEvictingUnprotected(s, g)
              b == PushAndEvictingUnprotected(t, g)
          IN  a.idx = b.idx /\ Normalize(a.st) = b.st

\* C13: clear() leaves the tier as new() builds it as far as any later call
\* can tell: empty map, all slots free in the order of new(), batch id 0,
\* and from then on every call returns the slot and the result that it
\* returns on the tier built by new() and driven by the same calls.
C13_ClearIsFresh ==
    /\ Normalize(CacheStateClear(cs)) = CacheStateNew(cs.capacity, Keys)
    /\ \A g \in Keys :
          /\ SameGetOrPush(cs, Normalize(cs), g)
          /\ SameGet(cs, Normalize(cs), g)
          /\ SamePush(cs, Normalize(cs), g)
    /\ Normalize(CacheStateNewBatch(cs)) = CacheStateNewBatch(Normalize(cs))

\* a tier that was cleared after use (a free slot still holds the node of an
\* old key) and has admitted a key since
C13_Witness ==
    /\ \E i \in FreeSlots(cs) : cs.lru_nodes[i] /= LruNodeDefault
    /\ MappedKeys(cs) /= {}

(***************************************************************************)
(* CPU glyph cache: VecAtlas and GlyphCache                                *)
(* (src/renderer/cpu_renderer/glyph_cache.rs).                             *)
(***************************************************************************)
\* the k-th coverage byte of glyph g as font.rasterize_indexed returns it:
\* every third pixel is not covered (0, which is T::default() too)
Pixel(g, k) == IF k % 3 = 1 THEN 0 ELSE g * 1000 + k

\* font.rasterize_indexed(glyph_index, font_size).1: width * height bytes
Rasterize(g) ==
    [k \in 1..(GlyphMetrics(g).width * GlyphMetrics(g).height) |-> Pixel(g, k)]

LruNodesDefault == [newer |-> None, older |-> None]

\* VecAtlas::new; data is kept block by block
VecAtlasNew(capacity, block_size, keys) ==
    [capacity    |-> capacity,
     block_size  |-> block_size,
     data        |-> [i \in 0..(capacity - 1) |-> [k \in 1..block_size |-> 0]],
     lru_nodes   |-> [i \in 0..(capacity - 1) |-> LruNodesDefault],
     lru_head    |-> None,
     lru_tail    |-> None,
     lru_map     |-> [g \in keys |-> None],
     lru_empties |-> [i \in 1..capacity |-> i - 1],
     lru_keys    |-> [i \in 0..(capacity - 1) |-> NoGlyph]]

\* VecAtlas::clear
VecAtlasClear(s) ==
    [s EXCEPT !.lru_map = [g \in DOMAIN s.lru_map |-> None],
              !.lru_empties = [i \in 1..s.capacity |-> i - 1],
              !.lru_keys = [i \in 0..(s.capacity - 1) |-> NoGlyph],
              !.lru_head = None,
              !.lru_tail = None]

\* VecAtlas::attach_to_head
VecAttachToHead(s, node_idx, key) ==
    LET s1 == [s EXCEPT !.lru_nodes[node_idx] = [newer |-> None, older |-> s.lru_head],
                        !.lru_map[key] = node_idx,
                        !.lru_keys[node_idx] = key]
        s2 == IF s.lru_head /= None
              THEN [s1 EXCEPT !.lru_nodes[s.lru_head].newer = node_idx]
              ELSE s1
    IN  [s2 EXCEPT !.lru_head = node_idx,
                   !.lru_tail = IF s.lru_tail = None THEN node_idx ELSE s.lru_tail]

\* VecAtlas::push_front (for a key that is not in lru_map)
VecPushFront(s, key) ==
    IF s.lru_empties = <<>>
    THEN LET tail_idx == s.lru_tail
             second_tail == s.lru_nodes[tail_idx].newer
             s1 == IF second_tail /= None
                   THEN [s EXCEPT !.lru_nodes[second_tail].older = None,
                                  !.lru_tail = second_tail]
                   ELSE [s EXCEPT !.lru_head = None, !.lru_tail = None]
             s2 == IF s1.lru_keys[tail_idx] /= NoGlyph
                   THEN [s1 EXCEPT !.lru_map[s1.lru_keys[tail_idx]] = None]
                   ELSE s1
         IN  [st |-> VecAttachToHead(s2, tail_idx, key), idx |-> tail_idx]
    ELSE LET idx == s.lru_empties[Len(s.lru_empties)]
             s1 == [s EXCEPT !.lru_empties = SubSeq(s.lru_empties, 1,
                                                    Len(s.lru_empties) - 1)]
         IN  [st |-> VecAttachToHead(s1, idx, key), idx |-> idx]

\* move_to_front of a bug that leaves the list as it is
VecMoveToFrontNot(s, key) == s

\* VecAtlas::move_to_front
VecMoveToFront(s, key) ==
    IF s.lru_map[key] = None THEN s
    ELSE LET current_index == s.lru_map[key]
             older_idx == s.lru_nodes[current_index].older
             newer_idx == s.lru_nodes[current_index].newer
             old_head_idx == s.lru_head
         IN  IF newer_idx /= None /\ older_idx /= None
             THEN LET s1 == [s EXCEPT !.lru_nodes[older_idx].newer = newer_idx]
                      s2 == [s1 EXCEPT !.lru_nodes[newer_idx].older = older_idx]
                      s3 == [s2 EXCEPT !.lru_nodes[old_head_idx].newer = current_index,
                                       !.lru_head = current_index]
                  IN  [s3 EXCEPT !.lru_nodes[current_index].older = old_head_idx,
                                 !.lru_nodes[current_index].newer = None]
             ELSE IF newer_idx /= None
             THEN LET s1 == [s EXCEPT !.lru_nodes[newer_idx].older = None,
                                      !.lru_tail = newer_idx]
                      s2 == [s1 EXCEPT !.lru_nodes[old_head_idx].newer = current_index,
                                       !.lru_head = current_index]
                  IN  [s2 EXCEPT !.lru_nodes[current_index].older = old_head_idx,
                                 !.lru_nodes[current_index].newer = None]
             ELSE s

\* get_or_insert_with of a bug that hands the produced bytes out on a miss
\* without writing them to the block
VecGetOrInsertWithNoCopy(s, key, produced) ==
    IF s.lru_map[key] /= None
    THEN [st |-> VecMoveToFront(s, key), data |-> s.data[s.lru_map[key]]]
    ELSE LET p == VecPushFront(s, key)
             copy_len == IF Len(produced) <= s.block_size THEN Len(produced)
                         ELSE s.block_size
         IN  [st |-> p.st, data |-> SubSeq(produced, 1, copy_len)]

\* VecAtlas::get_or_insert_with(key, f), f returning `produced`
\* result: the atlas after the call and the slice returned
VecGetOrInsertWith(s, key, produced) ==
    IF s.lru_map[key] /= None
    THEN [st |-> VecMoveToFront(s, key), data |-> s.data[s.lru_map[key]]]
    ELSE LET p == VecPushFront(s, key)
             copy_len == IF Len(produced) <= s.block_size THEN Len(produced)
                         ELSE s.block_size
             block == [k \in 1..s.block_size |->
                          IF k <= copy_len THEN produced[k] ELSE p.st.data[p.idx][k]]
         IN  [st |-> [p.st EXCEPT !.data[p.idx] = block],
              data |-> SubSeq(block, 1, copy_len)]

\* a (block_size, capacity) pair of GlyphCache::new
BlockConfig(block_size, capacity) == [block_size |-> block_size, capacity |-> capacity]

\* v.sort_by_key(|(block_size, _)| *block_size): stable insertion
RECURSIVE InsertByBlockSize(_, _)
InsertByBlockSize(sorted, c) ==
    IF sorted = <<>> THEN <<c>>
    ELSE IF sorted[Len(sorted)].block_size <= c.block_size
    THEN Append(sorted, c)
    ELSE Append(InsertByBlockSize(SubSeq(sorted, 1, Len(sorted) - 1), c),
                sorted[Len(sorted)])

RECURSIVE SortByBlockSize(_)
SortByBlockSize(pairs) ==
    IF pairs = <<>> THEN <<>>
    ELSE InsertByBlockSize(SortByBlockSize(SubSeq(pairs, 1, Len(pairs) - 1)),
                           pairs[Len(pairs)])

\* GlyphCache::new
GlyphCacheNew(blocksize_capasity) ==
    LET sorted == SortByBlockSize(blocksize_capasity)
    IN  [i \in 1..Len(sorted) |->
            VecAtlasNew(sorted[i].capacity, sorted[i].block_size,
                        GlyphIds \cup TextGlyphKeys)]

\* GlyphCache::clear
GlyphCacheClear(cc) == [i \in 1..Len(cc) |-> VecAtlasClear(cc[i])]

\* caches.iter_mut().find(|cache| cache.block_size >= glyph_bitmap_size):
\* the tiers (1-based) that are large enough
CpuSuitableTiers(cc, g) ==
    LET glyph_bitmap_size == GlyphMetrics(g).width * GlyphMetrics(g).height
    IN  {i \in 1..Len(cc) : cc[i].block_size >= glyph_bitmap_size}

\* GlyphCache::get
\* result: the tiers after the call and the item (NoCpuItem for None)
GlyphCacheGet(cc, g) ==
    IF ~FaceResolves(g) \/ CpuSuitableTiers(cc, g) = {}
    THEN [caches |-> cc, item |-> NoCpuItem]
    ELSE LET i == MinOf(CpuSuitableTiers(cc, g))
             r == VecGetOrInsertWith(cc[i], g, Rasterize(g))
         IN  [caches |-> [cc EXCEPT ![i] = r.st],
              item |-> [width |-> GlyphMetrics(g).width,
                        height |-> GlyphMetrics(g).height,
                        data |-> r.data]]

\* CpuRenderer::render_glyph up to `cached`, item being what
\* self.cache.get returned: the item of the cache, or the
\* glyph rasterized on the spot when the cache returns None (NoCpuItem when
\* the face does not resolve either and nothing is drawn)
RenderGlyphCached(item, g) ==
    IF item /= NoCpuItem THEN item
    ELSE IF ~FaceResolves(g) THEN NoCpuItem
    ELSE [width |-> GlyphMetrics(g).width,
          height |-> GlyphMetrics(g).height,
          data |-> Rasterize(g)]

(***************************************************************************)
(* SpecClassify: a FixedGpuCache and a CPU GlyphCache, each built from a   *)
(* config list in ascending or in descending order and driven by its       *)
(* operations.                                                             *)
(***************************************************************************)
\* the renderer-level variables other than the cache
renderLocals == <<pc, layout, line_i, glyph_i, update_atlas_list, instance_list,
                  result, stream, atlas, ever_failed, last_failed, is_retry,
                  cache0, glyphs_left, prev_drawn, is_rerender>>

\* the config lists supplied to FixedGpuCache::new and to GlyphCache::new
FixedConfigChoices ==
    {<<Config(8, 1, 8), Config(16, 2, 32)>>,
     <<Config(16, 1, 16), Config(8, 1, 8)>>,
     <<Config(8, 1, 8)>>}

CpuConfigChoices ==
    {<<BlockConfig(30, 1), BlockConfig(90, 2)>>,
     <<BlockConfig(90, 1), BlockConfig(30, 1)>>,
     <<BlockConfig(100, 2)>>}

\* the config lists drawn together: the larger GPU caches with the smallest
\* CPU cache, the larger CPU caches with the smallest GPU cache
ClassifyPairs ==
    {<<(<<Config(8, 1, 8), Config(16, 2, 32)>>),
       (<<BlockConfig(90, 1), BlockConfig(30, 1)>>)>>,
     <<(<<Config(16, 1, 16), Config(8, 1, 8)>>),
       (<<BlockConfig(90, 1), BlockConfig(30, 1)>>)>>,
     <<(<<Config(8, 1, 8)>>),
       (<<BlockConfig(30, 1), BlockConfig(90, 2)>>)>>,
     <<(<<Config(8, 1, 8)>>),
       (<<BlockConfig(100, 2)>>)>>}

\* the glyphs asked for
ClassifyGlyphs == {1, 2, MediumGlyph, LargeGlyph, MissingFaceGlyph}

InitClassify ==
    /\ cs = CacheStateNew(TierCapacity, Keys)
    /\ returned = NoneReturned
    /\ evicted = FALSE
    /\ \E p \in ClassifyPairs :
          /\ p[1] \in FixedConfigChoices
          /\ p[2] \in CpuConfigChoices
          /\ caches = FixedGpuCacheNew(p[1])
          /\ cache0 = FixedGpuCacheNew(p[1])
          /\ cpu_caches = GlyphCacheNew(p[2])
          /\ cpu_recency = [i \in 1..Len(p[2]) |-> <<>>]
    /\ pc = "idle"
    /\ layout = <<>>
    /\ line_i = 1
    /\ glyph_i = 1
    /\ update_atlas_list = <<>>
    /\ instance_list = <<>>
    /\ result = "none"
    /\ stream = <<>>
    /\ atlas = {}
    /\ ever_failed = FALSE
    /\ last_failed = FALSE
    /\ is_retry = FALSE
    /\ prev_drawn = <<>>
    /\ is_rerender = FALSE
    /\ glyphs_left = 0
    /\ cpu_item = NoCpuItem
    /\ image_size = <<0, 0>>
    /\ cpu_calls = <<>>
    /\ LayoutUnused
    /\ LocksUnused

\* GpuCache::get_or_push_and_protect on the Fixed cache
FixedGetOrPush(g) ==
    /\ caches' = FixedGetOrPushAndProtect(caches, g).caches
    /\ UNCHANGED <<renderLocals, tierVars, cpuVars, layoutVars, fontSystemVars>>

\* GpuCache::new_batch on the Fixed cache, as long as the counters stay below
\* MaxBatch
FixedNewBatch ==
    /\ \A i \in 1..Len(caches) : caches[i].cache_state.current_batch_id < MaxBatch
    /\ caches' = GpuCacheNewBatch(caches)
    /\ UNCHANGED <<renderLocals, tierVars, cpuVars, layoutVars, fontSystemVars>>

\* GpuCache::clear on the Fixed cache
FixedClear ==
    /\ caches' = GpuCacheClear(caches)
    /\ UNCHANGED <<renderLocals, tierVars, cpuVars, layoutVars, fontSystemVars>>

\* the history after key g was asked of the cache: g comes first in the
\* tier that GlyphCache::get picks for it
Asked(rec, cc, g) ==
    IF ~FaceResolves(g) \/ CpuSuitableTiers(cc, g) = {} THEN rec
    ELSE LET i == MinOf(CpuSuitableTiers(cc, g))
             IsOther(k) == k /= g
             all == <<g>> \o SelectSeq(rec[i], IsOther)
         IN  [rec EXCEPT ![i] = IF Len(all) <= cc[i].capacity THEN all
                                ELSE SubSeq(all, 1, cc[i].capacity)]

\* GlyphCache::get
CpuGet(g) ==
    LET r == GlyphCacheGet(cpu_caches, g)
    IN  /\ cpu_caches' = r.caches
        /\ cpu_item' = r.item
        /\ cpu_recency' = Asked(cpu_recency, cpu_caches, g)
        /\ UNCHANGED <<image_size, cpu_calls, renderVars, tierVars, layoutVars,
                     fontSystemVars>>

\* GlyphCache::clear
CpuClear ==
    /\ cpu_caches' = GlyphCacheClear(cpu_caches)
    /\ cpu_item' = NoCpuItem
    /\ cpu_recency' = [i \in 1..Len(cpu_caches) |-> <<>>]
    /\ UNCHANGED <<image_size, cpu_calls, renderVars, tierVars, layoutVars,
                     fontSystemVars>>

NextClassify ==
    \/ \E g \in ClassifyGlyphs : FixedGetOrPush(g)
    \/ FixedNewBatch
    \/ FixedClear
    \/ \E g \in ClassifyGlyphs : CpuGet(g)
    \/ CpuClear

SpecClassify == InitClassify /\ [][NextClassify]_vars

\* the tiers a glyph classifies to: large enough, and no large enough tier
\* is smaller
GpuClassified(cc, g) ==
    LET need == Max(GlyphMetrics(g).width, GlyphMetrics(g).height) + 2
    IN  {i \in 1..Len(cc) :
            /\ cc[i].tile_size >= need
            /\ \A j \in 1..Len(cc) :
                  cc[j].tile_size >= need => cc[i].tile_size <= cc[j].tile_size}

CpuClassified(cc, g) ==
    LET need == GlyphMetrics(g).width * GlyphMetrics(g).height
    IN  {i \in 1..Len(cc) :
            /\ cc[i].block_size >= need
            /\ \A j \in 1..Len(cc) :
                  cc[j].block_size >= need => cc[i].block_size <= cc[j].block_size}

\* tier lists a and b differ in tier k at most
OnlyTierChanged(a, b, k) ==
    /\ Len(a) = Len(b)
    /\ \A i \in 1..Len(a) : i /= k => a[i] = b[i]

\* C14: the tiers are in ascending order of tile size (GPU) and block size
\* (CPU) whatever the order of the configs; a glyph goes to the smallest
\* tier that is large enough for max(width, height) + 2 (GPU) or
\* width * height (CPU) and to no tier when none is; the Fixed GPU cache
\* looks the glyph up and admits it in that tier only.
C14_Classification ==
    /\ \A i, j \in 1..Len(caches) :
          i < j => caches[i].tile_size <= caches[j].tile_size
    /\ \A i, j \in 1..Len(cpu_caches) :
          i < j => cpu_caches[i].block_size <= cpu_caches[j].block_size
    /\ \A g \in ClassifyGlyphs :
          FaceResolves(g) =>
             LET r == FixedGetOrPushAndProtect(caches, g)
             IN  IF GpuClassified(caches, g) = {}
                 THEN r.res = "None" /\ r.caches = caches
                 ELSE \E k \in GpuClassified(caches, g) :
                         /\ OnlyTierChanged(caches, r.caches, k)
                         /\ r.res = "Hit" <=> caches[k].cache_state.lru_map[g] /= None
                         /\ r.res /= "None" =>
                               /\ r.item.texture_index = k - 1
                               /\ r.caches[k].cache_state.lru_map[g] /= None
                         /\ r.res = "None" => r.caches = caches
    /\ \A g \in ClassifyGlyphs :
          FaceResolves(g) =>
             LET r == GlyphCacheGet(cpu_caches, g)
             IN  IF CpuClassified(cpu_caches, g) = {}
                 THEN r.item = NoCpuItem /\ r.caches = cpu_caches
                 ELSE \E k \in CpuClassified(cpu_caches, g) :
                         /\ OnlyTierChanged(cpu_caches, r.caches, k)
                         /\ r.caches[k].lru_map[g] /= None
                         /\ r.item /= NoCpuItem

\* both caches were built from descending config lists and hold a glyph in
\* each of their two tiers
C14_Witness ==
    /\ Len(caches) = 2 /\ caches[2].texture_size = 16
    /\ Len(cpu_caches) = 2 /\ cpu_caches[2].capacity = 1
    /\ \A i \in 1..2 : MappedKeys(caches[i].cache_state) /= {}
    /\ \A i \in 1..2 : MappedKeys(cpu_caches[i]) /= {}

(***************************************************************************)
(* The Fallback strategy.                                                  *)
(***************************************************************************)
\* the tiers that hold key g
Resident(cc, g) == {i \in 1..Len(cc) : cc[i].cache_state.lru_map[g] /= None}

\* tier i turns the admission of g down
TierRefuses(cc, i, g) == PushAndEvictingUnprotected(cc[i].cache_state, g).idx = None

\* C15: under the Fallback strategy a key is resident in one tier at most
\* and never in a tier smaller than its classified tier; a resident key is
\* a Hit from the tier that holds it and nothing else changes; a miss is
\* admitted (NeedToUpload) into the first tier from the classified one
\* upward that accepts it, and fails only when all of them refuse.
C15_FallbackPlacement ==
    \A g \in LayoutGlyphs :
        FaceResolves(g) =>
           LET r == FallbackGetOrPushAndProtect(caches, g)
               need == Max(GlyphMetrics(g).width, GlyphMetrics(g).height) + 2
           IN  /\ Cardinality(Resident(caches, g)) <= 1
               /\ \A i \in Resident(caches, g) : caches[i].tile_size >= need
               /\ \A i \in Resident(caches, g) :
                     /\ r.res = "Hit"
                     /\ r.item.texture_index = i - 1
                     /\ OnlyTierChanged(caches, r.caches, i)
                     /\ KeysAndSlots(r.caches) = KeysAndSlots(caches)
               /\ (Resident(caches, g) = {} /\ GpuClassified(caches, g) /= {}) =>
                     \E k \in GpuClassified(caches, g) :
                        IF \A i \in k..Len(caches) : TierRefuses(caches, i, g)
                        THEN r.res = "None" /\ r.caches = caches
                        ELSE \E j \in k..Len(caches) :
                                /\ \A i \in k..(j - 1) : TierRefuses(caches, i, g)
                                /\ ~TierRefuses(caches, j, g)
                                /\ r.res = "NeedToUpload"
                                /\ r.item.texture_index = j - 1
                                /\ OnlyTierChanged(caches, r.caches, j)
                                /\ Resident(r.caches, g) = {j}
               /\ GpuClassified(caches, g) = {} =>
                     r.res = "None" /\ r.caches = caches

\* a small glyph that was admitted into the larger tier because the smaller
\* one refused it, next to a key in the smaller tier
C15_Witness ==
    /\ Len(caches) = 2
    /\ MappedKeys(caches[1].cache_state) /= {}
    /\ \E g \in SmallGlyphs : Resident(caches, g) = {2}

(***************************************************************************)
(* SpecRerender: renders in succession on a renderer with two tiers of one *)
(* tile each; the layouts hold two small glyphs and a medium one at most,  *)
(* so every glyph fits a tier and draw_standalone is never reached.        *)
(***************************************************************************)
RerenderConfigs == <<Config(8, 1, 8), Config(16, 1, 16)>>

RerenderLayouts ==
    {<<s>> : s \in SeqsUpTo({1, 2, MediumGlyph}, 2)}

\* glyph positions of all the layouts rendered in one run of SpecRerender
RerenderBudget == 2 * MaxGlyphs + 1

InitRerender ==
    /\ cs = CacheStateNew(TierCapacity, Keys)
    /\ returned = NoneReturned
    /\ evicted = FALSE
    /\ RendererNew(RerenderConfigs, RerenderBudget)
    /\ CpuUnused
    /\ LayoutUnused
    /\ LocksUnused

NextRerender ==
    \/ \E l \in RerenderLayouts : RenderStart(l)
    \/ RenderGlyph
    \/ \E o \in Outcomes : RenderFlushUpdate(o)
    \/ \E o \in Outcomes : RenderFlushDraw(o)
    \/ RenderRetry
    \/ \E o \in Outcomes : RenderFinalUpdate(o)
    \/ \E o \in Outcomes : RenderFinalDraw(o)
    \/ RenderReturn

SpecRerender == InitRerender /\ [][NextRerender]_vars

\* the distinct glyphs of a layout whose face resolves
LayoutKeys(l) ==
    {g \in GlyphIds : FaceResolves(g)
                      /\ \E i \in 1..Len(ReadingOrder(l)) : ReadingOrder(l)[i] = g}

\* every glyph of the layout classifies to a tier, and no tier is the
\* classified tier of more glyphs of the layout than it has tiles
FitTogether(cc, l) ==
    /\ \A g \in LayoutKeys(l) : GpuClassified(cc, g) /= {}
    /\ \A i \in 1..Len(cc) :
          Cardinality({g \in LayoutKeys(l) : i \in GpuClassified(cc, g)})
              <= cc[i].tiles_per_axis * cc[i].tiles_per_axis

\* C16: a render that repeats the layout of the render before it, the
\* layout's glyphs fitting together in the tiers and no callback having
\* failed on this renderer, delivers no atlas update and the same instances
\* in the same order.
C16_RerenderIsIdempotent ==
    (/\ pc = "done"
     /\ result = "Ok"
     /\ is_rerender
     /\ ~ever_failed
     /\ FitTogether(caches, layout))
        => /\ \A i \in 1..Len(stream) : stream[i].kind /= "update_atlas"
           /\ DrawnInstances(stream) = prev_drawn

(***************************************************************************)
(* The text layout engine (src/text/layout.rs).                            *)
(*                                                                         *)
(* An f32 is modelled by an integer: every metric of the model is an even  *)
(* integer of small magnitude, and on such values the f32 sums,            *)
(* differences, products, maxima, floors and halvings of the code are      *)
(* exact.  A font id stands for a face at one font size, a char for itself *)
(* and for its glyph index, and the user data of a run is left out.        *)
(* Option values are sequences: <<>> is None and <<v>> is Some(v).         *)
(***************************************************************************)
MaxChars == 3

TAB_SIZE_IN_SPACES == 4

IsSome(o) == o /= <<>>

\* ' ', '\n' and '\t' are " ", "LF" and "TAB"
Chars == {"a", "W", " ", "LF", "TAB"}

\* an id of a face that FontStorage::font does not resolve
MissingFont == 3

\* a face the storage resolves but that has no horizontal line metrics
NoLineMetricsFont == 4

FontStorageFont(font_id) ==
    IF font_id \in Fonts \cup {NoLineMetricsFont} THEN <<font_id>> ELSE <<>>

\* font.horizontal_line_metrics(font_size) is Some
HasLineMetrics(f) == f \in Fonts

\* Font::horizontal_line_metrics of the two faces
HorizontalLineMetrics(f) ==
    [ascent |-> 8 * f, descent |-> 0 - 2 * f, line_gap |-> 2 * (f - 1)]

\* Font::horizontal_kern_indexed(..).unwrap_or(0.0)
HorizontalKernIndexed(f, left, right) ==
    IF left = "W" /\ right = "a" THEN 0 - 2 * f ELSE 0

\* the word_separators and linebreak_char of TextLayoutConfig::default()
WordSeparators == {" ", "TAB", "LF"}

LinebreakChar == {"LF"}

\* char::is_control and char::is_whitespace on Chars
IsControl(ch) == ch \in {"LF", "TAB"}

IsWhitespace(ch) == ch \in {" ", "LF", "TAB"}

\* layout_utl::classify_char
ClassifyChar(ch) ==
    IF ch \in LinebreakChar
    THEN [kind |-> "LineBreak", render_glyph |-> FALSE]
    ELSE IF ch \in WordSeparators
    THEN IF ch = "TAB"
         THEN [kind |-> "Tab", render_glyph |-> FALSE]
         ELSE [kind |-> "WordBreak", render_glyph |-> ~IsControl(ch)]
    ELSE IF IsControl(ch)
    THEN [kind |-> "Ignore", render_glyph |-> FALSE]
    ELSE [kind |-> "Regular", render_glyph |-> FALSE]

\* the create_fragment closure of process_text_run
CreateFragment(f, ch, user_data) ==
    [ch |-> ch, glyph_idx |-> ch, metrics |-> MetricsIndexed(f, ch),
     line_metrics |-> HorizontalLineMetrics(f), font_id |-> f,
     user_data |-> user_data]

\* GlyphId::new(font_id, glyph_idx, font_size)
GlyphIdNew(font_id, glyph_idx) == [font_id |-> font_id, glyph_idx |-> glyph_idx]

\* LayoutBuffer::new_empty
LayoutBufferNewEmpty(line_metrics) ==
    [instance_length |-> 0,
     max_accent |-> line_metrics.ascent,
     max_descent |-> line_metrics.descent,
     max_line_gap |-> line_metrics.line_gap,
     first_glyph |-> <<>>, first_font_id |-> <<>>,
     last_glyph |-> <<>>, last_font_id |-> <<>>,
     next_origin_x |-> 0,
     glyphs |-> <<>>]

\* LayoutBuffer::new with the glyph y of a bug that drops the negation
GlyphTopKeepsSign(metrics) == metrics.ymin + metrics.height

\* the y of a glyph relative to the baseline (y goes down)
GlyphTop(metrics) == 0 - (metrics.ymin + metrics.height)

\* LayoutBuffer::new
LayoutBufferNew(fr) ==
    [instance_length |-> fr.metrics.width + fr.metrics.xmin,
     max_accent |-> fr.line_metrics.ascent,
     max_descent |-> fr.line_metrics.descent,
     max_line_gap |-> fr.line_metrics.line_gap,
     first_glyph |-> <<fr.glyph_idx>>, first_font_id |-> <<fr.font_id>>,
     last_glyph |-> <<fr.glyph_idx>>, last_font_id |-> <<fr.font_id>>,
     next_origin_x |-> fr.metrics.advance_width,
     glyphs |-> <<[glyph_id |-> GlyphIdNew(fr.font_id, fr.glyph_idx),
                   x |-> fr.metrics.xmin,
                   y |-> GlyphTop(fr.metrics),
                   user_data |-> fr.user_data]>>]

\* LayoutBuffer::push
LayoutBufferPush(self, fr) ==
    LET kerning ==
            IF /\ IsSome(self.last_font_id)
               /\ IsSome(self.last_glyph)
               /\ self.last_font_id[1] = fr.font_id
            THEN HorizontalKernIndexed(fr.font_id, self.last_glyph[1], fr.glyph_idx)
            ELSE 0
        current_origin_x == self.next_origin_x + kerning
    IN  [instance_length |-> current_origin_x + fr.metrics.width + fr.metrics.xmin,
         max_accent |-> Max(self.max_accent, fr.line_metrics.ascent),
         max_descent |-> Max(self.max_descent, fr.line_metrics.descent),
         max_line_gap |-> Max(self.max_line_gap, fr.line_metrics.line_gap),
         first_glyph |-> IF IsSome(self.first_glyph) THEN self.first_glyph
                         ELSE <<fr.glyph_idx>>,
         first_font_id |-> IF IsSome(self.first_glyph) THEN self.first_font_id
                           ELSE <<fr.font_id>>,
         last_glyph |-> <<fr.glyph_idx>>,
         last_font_id |-> <<fr.font_id>>,
         next_origin_x |-> current_origin_x + fr.metrics.advance_width,
         glyphs |-> Append(self.glyphs,
                           [glyph_id |-> GlyphIdNew(fr.font_id, fr.glyph_idx),
                            x |-> current_origin_x + fr.metrics.xmin,
                            y |-> GlyphTop(fr.metrics),
                            user_data |-> fr.user_data])]

\* the kerning between the last glyph of self and the first glyph of other,
\* as LayoutBuffer::concat and projected_concat_length compute it
BoundaryKerning(self, other) ==
    IF /\ IsSome(self.last_font_id)
       /\ IsSome(self.last_glyph)
       /\ IsSome(other.first_font_id)
       /\ IsSome(other.first_glyph)
       /\ self.last_font_id[1] = other.first_font_id[1]
    THEN HorizontalKernIndexed(self.last_font_id[1], self.last_glyph[1],
                               other.first_glyph[1])
    ELSE 0

\* LayoutBuffer::concat of a bug that puts the glyphs of other before its own
LayoutBufferConcatPrepends(self, other) ==
    LET x_offset == self.next_origin_x + BoundaryKerning(self, other)
    IN  [instance_length |-> x_offset + other.instance_length,
         max_accent |-> Max(self.max_accent, other.max_accent),
         max_descent |-> Max(self.max_descent, other.max_descent),
         max_line_gap |-> Max(self.max_line_gap, other.max_line_gap),
         first_glyph |-> IF IsSome(self.first_glyph) THEN self.first_glyph
                         ELSE other.first_glyph,
         first_font_id |-> IF IsSome(self.first_glyph) THEN self.first_font_id
                           ELSE other.first_font_id,
         last_glyph |-> IF IsSome(other.last_glyph) THEN other.last_glyph
                        ELSE self.last_glyph,
         last_font_id |-> IF IsSome(other.last_glyph) THEN other.last_font_id
                          ELSE self.last_font_id,
         next_origin_x |-> x_offset + other.next_origin_x,
         glyphs |-> [i \in 1..Len(other.glyphs) |->
                        [other.glyphs[i] EXCEPT !.x = @ + x_offset]]
                    \o self.glyphs]

\* LayoutBuffer::concat
LayoutBufferConcat(self, other) ==
    LET x_offset == self.next_origin_x + BoundaryKerning(self, other)
    IN  [instance_length |-> x_offset + other.instance_length,
         max_accent |-> Max(self.max_accent, other.max_accent),
         max_descent |-> Max(self.max_descent, other.max_descent),
         max_line_gap |-> Max(self.max_line_gap, other.max_line_gap),
         first_glyph |-> IF IsSome(self.first_glyph) THEN self.first_glyph
                         ELSE other.first_glyph,
         first_font_id |-> IF IsSome(self.first_glyph) THEN self.first_font_id
                           ELSE other.first_font_id,
         last_glyph |-> IF IsSome(other.last_glyph) THEN other.last_glyph
                        ELSE self.last_glyph,
         last_font_id |-> IF IsSome(other.last_glyph) THEN other.last_font_id
                          ELSE self.last_font_id,
         next_origin_x |-> x_offset + other.next_origin_x,
         glyphs |-> self.glyphs \o
                    [i \in 1..Len(other.glyphs) |->
                        [other.glyphs[i] EXCEPT !.x = @ + x_offset]]]

\* LayoutBuffer::width
Width(self) == Max(self.instance_length, 0)

\* projected_concat_length with the offset of the current line forgotten
ProjectedConcatLengthFromZero(self, other) == other.instance_length

\* LayoutBuffer::projected_concat_length
ProjectedConcatLength(self, other) ==
    self.next_origin_x + BoundaryKerning(self, other) + other.instance_length

\* LayoutBuffer::line_metrics
LineMetricsOf(self) ==
    [ascent |-> self.max_accent, descent |-> self.max_descent,
     line_gap |-> self.max_line_gap]

\* LayoutBuffer::from_fragments on a non-empty slice: new on the first
\* fragment, push on the others
RECURSIVE PushAll(_, _, _)
PushAll(buffer, fragments, i) ==
    IF i > Len(fragments) THEN buffer
    ELSE PushAll(LayoutBufferPush(buffer, fragments[i]), fragments, i + 1)

FromFragments(fragments) == PushAll(LayoutBufferNew(fragments[1]), fragments, 2)

\* LayoutEngine::new: no line, no line buffer, no word buffer, no metrics
LayoutEngineNew ==
    [lines |-> <<>>, line_buf |-> <<>>, word_buf |-> <<>>,
     last_line_metrics |-> <<>>]

\* LayoutEngine::push_line_buffer
PushLineBuffer(e) ==
    IF IsSome(e.line_buf)
    THEN [e EXCEPT !.lines = Append(@, [buffer |-> e.line_buf, metrics |-> <<>>]),
                   !.line_buf = <<>>]
    ELSE e

\* finalize_line of a bug that drops a line without a buffer
FinalizeLineOnlyWithBuffer(e, metrics) ==
    IF IsSome(e.line_buf)
    THEN [e EXCEPT !.lines = Append(@, [buffer |-> e.line_buf, metrics |-> metrics]),
                   !.line_buf = <<>>]
    ELSE e

\* LayoutEngine::finalize_line
FinalizeLine(e, metrics) ==
    IF IsSome(e.line_buf) \/ IsSome(metrics)
    THEN [e EXCEPT !.lines = Append(@, [buffer |-> e.line_buf, metrics |-> metrics]),
                   !.line_buf = <<>>]
    ELSE e

\* a hard break that never extends a chunk
GreedyExtendStopsAtOnce(best, limit_width, fragments, end) ==
    [best |-> best, end |-> end]

\* the inner loop of the hard break: extend the chunk best with the
\* fragments from position end on while the projected length fits the limit
RECURSIVE GreedyExtend(_, _, _, _)
GreedyExtend(best, limit_width, fragments, end) ==
    IF end > Len(fragments) THEN [best |-> best, end |-> end]
    ELSE LET next_buf == FromFragments(<<fragments[end]>>)
         IN  IF ProjectedConcatLength(best, next_buf) > limit_width
             THEN [best |-> best, end |-> end]
             ELSE GreedyExtend(LayoutBufferConcat(best, next_buf), limit_width,
                               fragments, end + 1)

\* Case 5 of append_fragments_to_line: split the fragments from position
\* start on into chunks that fit, each on a line of its own
RECURSIVE HardBreak(_, _, _, _)
HardBreak(e, limit_width, fragments, start) ==
    IF start > Len(fragments) THEN e
    ELSE LET first == FromFragments(<<fragments[start]>>)
         IN  IF Width(first) > limit_width
             THEN HardBreak([PushLineBuffer(e) EXCEPT !.line_buf = <<first>>],
                            limit_width, fragments, start + 1)
             ELSE LET g == GreedyExtend(first, limit_width, fragments, start + 1)
                      committed == [PushLineBuffer(e) EXCEPT !.line_buf = <<g.best>>]
                  IN  HardBreak(IF g.end <= Len(fragments)
                                THEN PushLineBuffer(committed)
                                ELSE committed,
                                limit_width, fragments, g.end)

\* a bug that breaks an over-wide sequence whatever wrap_hard_break says
OverflowNever(cfg) == FALSE

\* Case 4 of append_fragments_to_line: without wrap_hard_break the sequence
\* is left to overflow
OverflowAllowed(cfg) == ~cfg.wrap_hard_break

\* LayoutEngine::append_fragments_to_line
AppendFragmentsToLine(e, cfg, fragments) ==
    IF fragments = <<>> THEN e
    ELSE
    LET limit == IF cfg.wrap_style = "NoWrap" THEN None ELSE cfg.max_width
        buffer == FromFragments(fragments)
    IN  IF limit /= None
        THEN IF /\ IsSome(e.line_buf)
                /\ ProjectedConcatLength(e.line_buf[1], buffer) <= limit
             THEN [e EXCEPT !.line_buf = <<LayoutBufferConcat(@[1], buffer)>>]
             ELSE LET pushed == PushLineBuffer(e)
                  IN  IF Width(buffer) <= limit
                      THEN [pushed EXCEPT !.line_buf = <<buffer>>]
                      ELSE IF OverflowAllowed(cfg)
                      THEN [pushed EXCEPT !.line_buf = <<buffer>>]
                      ELSE HardBreak(pushed, limit, fragments, 1)
        ELSE IF IsSome(e.line_buf)
             THEN [e EXCEPT !.line_buf = <<LayoutBufferConcat(@[1], buffer)>>]
             ELSE [e EXCEPT !.line_buf = <<buffer>>]

\* LayoutEngine::append_fragments_with_rules
AppendFragmentsWithRules(e, cfg, fragments, allow_leading_space) ==
    IF fragments = <<>> THEN e
    ELSE IF /\ ~allow_leading_space
            /\ IsWhitespace(fragments[1].ch)
            /\ IF IsSome(e.line_buf) THEN e.line_buf[1].glyphs = <<>> ELSE TRUE
    THEN e
    ELSE AppendFragmentsToLine(e, cfg, fragments)

\* if let Some(word) = self.word_buf.take() { append_fragments_with_rules(&word, true) }
FlushWord(e, cfg) ==
    IF IsSome(e.word_buf)
    THEN AppendFragmentsWithRules([e EXCEPT !.word_buf = <<>>], cfg,
                                  e.word_buf[1], TRUE)
    ELSE e

\* the Tab arm of process_text_run: the line's next_origin_x moves to the
\* next tab stop
TabStop(e, f) ==
    LET line == IF IsSome(e.line_buf) THEN e.line_buf[1]
                ELSE LayoutBufferNewEmpty(HorizontalLineMetrics(f))
        tab_width == MetricsIndexed(f, " ").advance_width * TAB_SIZE_IN_SPACES
        next_stop == (line.next_origin_x \div tab_width) * tab_width + tab_width
    IN  [e EXCEPT !.line_buf = <<[line EXCEPT !.next_origin_x = next_stop]>>]

\* one turn of the loop over text.content.chars() in process_text_run
ProcessChar(e, cfg, f, user_data, ch) ==
    LET behavior == ClassifyChar(ch)
    IN  CASE behavior.kind = "LineBreak" ->
                FinalizeLine(FlushWord(e, cfg), <<HorizontalLineMetrics(f)>>)
          [] behavior.kind = "WordBreak" ->
                IF behavior.render_glyph
                THEN AppendFragmentsWithRules(FlushWord(e, cfg), cfg,
                                              <<CreateFragment(f, ch, user_data)>>, FALSE)
                ELSE FlushWord(e, cfg)
          [] behavior.kind = "Tab" -> TabStop(FlushWord(e, cfg), f)
          [] behavior.kind = "Regular" ->
                IF cfg.wrap_style = "CharWrap"
                THEN AppendFragmentsWithRules(e, cfg, <<CreateFragment(f, ch, user_data)>>, TRUE)
                ELSE IF IsSome(e.word_buf)
                THEN [e EXCEPT !.word_buf = <<Append(@[1], CreateFragment(f, ch, user_data))>>]
                ELSE [e EXCEPT !.word_buf = <<<<CreateFragment(f, ch, user_data)>>>>]
          [] OTHER -> e

RECURSIVE ProcessChars(_, _, _, _, _, _)
ProcessChars(e, cfg, f, user_data, content, i) ==
    IF i > Len(content) THEN e
    ELSE ProcessChars(ProcessChar(e, cfg, f, user_data, content[i]), cfg, f,
                      user_data, content, i + 1)

\* process_text_run of a bug that records the line metrics of the run
\* before it looks at the content
ProcessTextRunMetricsFirst(e, cfg, text) ==
    IF ~IsSome(FontStorageFont(text.font_id)) THEN e
    ELSE IF ~HasLineMetrics(text.font_id) THEN e
    ELSE ProcessChars(
             [e EXCEPT !.last_line_metrics = <<HorizontalLineMetrics(text.font_id)>>],
             cfg, text.font_id, text.user_data, text.content, 1)

\* LayoutEngine::process_text_run
ProcessTextRun(e, cfg, text) ==
    IF ~IsSome(FontStorageFont(text.font_id)) THEN e
    ELSE IF ~HasLineMetrics(text.font_id) THEN e
    ELSE IF text.content = <<>> THEN e
    ELSE ProcessChars(
             [e EXCEPT !.last_line_metrics = <<HorizontalLineMetrics(text.font_id)>>],
             cfg, text.font_id, text.user_data, text.content, 1)

RECURSIVE ProcessTextRuns(_, _, _, _)
ProcessTextRuns(e, cfg, elements, i) ==
    IF i > Len(elements) THEN e
    ELSE ProcessTextRuns(ProcessTextRun(e, cfg, elements[i]), cfg, elements, i + 1)

\* f32::max
F32Max(a, b) == IF a >= b THEN a ELSE b

\* the line height of a bug that forgets the clamp
ScaledLineHeightUnclamped(raw_line_height, line_height_scale) ==
    raw_line_height * line_height_scale

\* (raw_line_height * line_height_scale).max(0.0)
ScaledLineHeight(raw_line_height, line_height_scale) ==
    F32Max(raw_line_height * line_height_scale, 0)

\* the baseline of a line, relative to the top of the layout
Baseline(cursor_y, ascent) == cursor_y + ascent

\* the width, line metrics and glyphs of a LineRecord
RecordData(record) ==
    IF IsSome(record.buffer)
    THEN [width |-> Width(record.buffer[1]),
          line_metrics |-> LineMetricsOf(record.buffer[1]),
          glyphs |-> record.buffer[1].glyphs]
    ELSE IF IsSome(record.metrics)
    THEN [width |-> 0, line_metrics |-> record.metrics[1], glyphs |-> <<>>]
    ELSE [width |-> 0,
          line_metrics |-> [ascent |-> 0, descent |-> 0, line_gap |-> 0],
          glyphs |-> <<>>]

\* the total width of a bug that keeps the width of the last line
LastLineWidth(max_line_width, width) == width

\* max_line_width = max_line_width.max(width)
MaxLineWidth(max_line_width, width) == F32Max(max_line_width, width)

\* the first loop of build_result: the records from position i on become
\* LineData, cursor_y and max_line_width running along
RECURSIVE LayoutLines(_, _, _, _, _, _)
LayoutLines(records, i, cursor_y, max_line_width, line_height_scale, acc) ==
    IF i > Len(records)
    THEN [layout_lines |-> acc, total_height |-> cursor_y,
          total_width |-> max_line_width]
    ELSE LET d == RecordData(records[i])
             raw_line_height == d.line_metrics.ascent - d.line_metrics.descent
                                    + d.line_metrics.line_gap
             scaled_line_height == ScaledLineHeight(raw_line_height, line_height_scale)
             baseline == Baseline(cursor_y, d.line_metrics.ascent)
             next_cursor_y == cursor_y + scaled_line_height
         IN  LayoutLines(records, i + 1, next_cursor_y,
                         MaxLineWidth(max_line_width, d.width),
                         line_height_scale,
                         Append(acc,
                                [width |-> d.width,
                                 height |-> scaled_line_height,
                                 y |-> next_cursor_y - scaled_line_height,
                                 glyphs |-> [k \in 1..Len(d.glyphs) |->
                                     [d.glyphs[k] EXCEPT !.y = @ + baseline]]]))

\* x / 2.0
Half(x) == x \div 2

\* the vertical offset of the whole block
VerticalOffset(cfg, total_height) ==
    LET target_height == IF cfg.max_height /= None THEN cfg.max_height
                         ELSE total_height
    IN  CASE cfg.vertical_align = "Top"    -> 0
          [] cfg.vertical_align = "Middle" -> Half(target_height - total_height)
          [] cfg.vertical_align = "Bottom" -> target_height - total_height

\* the horizontal offset of a bug that aligns within total_width although
\* max_width is set
HorizontalOffsetInTotal(cfg, total_width, width) ==
    CASE cfg.horizontal_align = "Left"   -> 0
      [] cfg.horizontal_align = "Center" -> (total_width - width) \div 2
      [] cfg.horizontal_align = "Right"  -> total_width - width

\* the horizontal offset of a line
HorizontalOffset(cfg, total_width, width) ==
    LET target_width == IF cfg.max_width /= None THEN cfg.max_width
                        ELSE total_width
    IN  CASE cfg.horizontal_align = "Left"   -> 0
          [] cfg.horizontal_align = "Center" -> Half(target_width - width)
          [] cfg.horizontal_align = "Right"  -> target_width - width

\* LayoutEngine::build_result
BuildResult(e, cfg) ==
    LET first == LayoutLines(e.lines, 1, 0, 0, cfg.line_height_scale, <<>>)
        vertical_offset == VerticalOffset(cfg, first.total_height)
    IN  [config |-> cfg,
         total_height |-> first.total_height,
         total_width |-> first.total_width,
         lines |-> [i \in 1..Len(first.layout_lines) |->
             LET line == first.layout_lines[i]
                 horizontal_offset == HorizontalOffset(cfg, first.total_width, line.width)
             IN  [line_height |-> line.height,
                  line_width |-> line.width,
                  top |-> line.y + vertical_offset,
                  bottom |-> line.y + vertical_offset + line.height,
                  glyphs |-> [k \in 1..Len(line.glyphs) |->
                      [line.glyphs[k] EXCEPT !.x = @ + horizontal_offset,
                                             !.y = @ + vertical_offset]]]]]

\* LayoutEngine::layout up to the call of build_result: the runs are
\* processed, the pending word is flushed and the last line is finalized
LayoutEngineRun(cfg, elements) ==
    LET processed == ProcessTextRuns(LayoutEngineNew, cfg, elements, 1)
        flushed == FlushWord(processed, cfg)
    IN  FinalizeLine(flushed, flushed.last_line_metrics)

\* LayoutEngine::layout, which TextData::layout forwards to
TextDataLayout(cfg, elements) == BuildResult(LayoutEngineRun(cfg, elements), cfg)

\* TextData::measure
TextDataMeasure(cfg, elements) ==
    LET l == TextDataLayout(cfg, elements)
    IN  <<l.total_width, l.total_height>>

\* a TextElement: a run of chars in one face
TextElement(font_id, content, user_data) ==
    [font_id |-> font_id, content |-> content, user_data |-> user_data]

(***************************************************************************)
(* The text layout specification: Init draws a configuration and the text  *)
(* elements, the actions call layout and measure on them.                  *)
(***************************************************************************)
\* configurations that vary the wrapping: no limit, a limit narrower than
\* "W" and a limit that holds the outline of "W" but not its advance
WrapConfigs ==
    {[max_width |-> w, max_height |-> None, horizontal_align |-> "Left",
      vertical_align |-> "Top", line_height_scale |-> 1,
      wrap_style |-> s, wrap_hard_break |-> hb] :
        w \in {None, 4, 6},
        s \in {"WordWrap", "CharWrap", "NoWrap"},
        hb \in BOOLEAN}

\* configurations that vary the alignment, the line height scale and the box
AlignConfigs ==
    {[max_width |-> w, max_height |-> h, horizontal_align |-> a[1],
      vertical_align |-> a[2], line_height_scale |-> sc,
      wrap_style |-> "WordWrap", wrap_hard_break |-> TRUE] :
        w \in {None, 8},
        h \in {None, 40},
        a \in {<<"Left", "Top">>, <<"Center", "Middle">>, <<"Right", "Bottom">>,
               <<"Center", "Bottom">>},
        sc \in {0 - 1, 0, 1, 2}}

LayoutConfigs == WrapConfigs \cup AlignConfigs

\* one run of up to MaxChars chars, or two runs of at most one char each,
\* the first of them possibly in a face the storage does not hold or in a
\* face without line metrics
LayoutTexts ==
    {<<TextElement(1, c, "p")>> : c \in SeqsUpTo(Chars, MaxChars)}
    \cup {<<TextElement(f, c1, "p"), TextElement(2, c2, "q")>> :
            f \in {1, MissingFont, NoLineMetricsFont},
            c1 \in SeqsUpTo(Chars, 1), c2 \in SeqsUpTo(Chars, 1)}
    \cup {<<>>}

InitLayout ==
    /\ config \in LayoutConfigs
    /\ texts \in LayoutTexts
    /\ text_layout = NoLayout
    /\ measured = NoMeasure
    /\ cs = CacheStateNew(TierCapacity, Keys)
    /\ returned = NoneReturned
    /\ evicted = FALSE
    /\ RendererNew(<<Config(8, 1, 8)>>, 0)
    /\ CpuUnused
    /\ LocksUnused

\* TextData::layout(config, font_storage)
TextLayoutCall ==
    /\ text_layout = NoLayout
    /\ text_layout' = TextDataLayout(config, texts)
    /\ UNCHANGED <<config, texts, measured, tierVars, renderVars, cpuVars,
                 fontSystemVars>>

\* TextData::measure(config, font_storage)
TextMeasureCall ==
    /\ measured = NoMeasure
    /\ measured' = TextDataMeasure(config, texts)
    /\ UNCHANGED <<config, texts, text_layout, tierVars, renderVars, cpuVars,
                 fontSystemVars>>

NextLayout == TextLayoutCall \/ TextMeasureCall

SpecLayout == InitLayout /\ [][NextLayout]_vars

(***************************************************************************)
(* Claims about the text layout                                            *)
(***************************************************************************)
LaidOut == text_layout /= NoLayout

\* the width of a glyph on a line of its own
OwnWidth(glyph) ==
    Width(LayoutBufferNew(CreateFragment(glyph.glyph_id.font_id,
                                         glyph.glyph_id.glyph_idx,
                                         glyph.user_data)))

WrapsHard ==
    /\ config.wrap_style \in {"WordWrap", "CharWrap"}
    /\ config.max_width /= None
    /\ config.wrap_hard_break

\* C17: with WordWrap or CharWrap, a max_width M and wrap_hard_break, every
\* line of the layout with two or more glyphs has line_width <= M, and a
\* line wider than M holds exactly one glyph, which is itself wider than M.
C17_HardBreakKeepsLinesWithinLimit ==
    (LaidOut /\ WrapsHard) =>
        \A i \in 1..Len(text_layout.lines) :
            LET line == text_layout.lines[i]
            IN  /\ Len(line.glyphs) >= 2 => line.line_width <= config.max_width
                /\ line.line_width > config.max_width =>
                      /\ Len(line.glyphs) = 1
                      /\ OwnWidth(line.glyphs[1]) > config.max_width

\* a layout with a line of one glyph wider than the limit and a line that
\* the limit cut after two or more glyphs
C17_Witness ==
    /\ LaidOut
    /\ WrapsHard
    /\ \E i \in 1..Len(text_layout.lines) :
          /\ text_layout.lines[i].line_width > config.max_width
          /\ Len(text_layout.lines[i].glyphs) = 1
    /\ \E i \in 1..Len(text_layout.lines) :
          /\ Len(text_layout.lines[i].glyphs) >= 2
          /\ i < Len(text_layout.lines)

\* the metrics of a positioned glyph and of its face
MetricsOfGlyph(glyph) ==
    MetricsIndexed(glyph.glyph_id.font_id, glyph.glyph_id.glyph_idx)

FaceOfGlyph(glyph) == HorizontalLineMetrics(glyph.glyph_id.font_id)

TopWithinAscent(glyph) ==
    /\ 0 <= MetricsOfGlyph(glyph).ymin + MetricsOfGlyph(glyph).height
    /\ MetricsOfGlyph(glyph).ymin + MetricsOfGlyph(glyph).height
           <= FaceOfGlyph(glyph).ascent

C19_LineBoxesStack ==
    LaidOut =>
        \A i \in 1..Len(text_layout.lines) :
            LET line == text_layout.lines[i]
            IN  /\ line.bottom - line.top = line.line_height
                /\ line.line_height >= 0
                /\ i = 1 => line.top = VerticalOffset(config, text_layout.total_height)
                /\ i > 1 => line.top = text_layout.lines[i - 1].bottom

\* a layout of two lines or more whose raw line height times the scale is
\* negative, moved by the vertical alignment
C19_Witness ==
    /\ LaidOut
    /\ Len(text_layout.lines) >= 2
    /\ config.line_height_scale < 0
    /\ VerticalOffset(config, text_layout.total_height) /= 0
    /\ \E i \in 1..Len(text_layout.lines) : text_layout.lines[i].glyphs /= <<>>

RECURSIVE MaxLineWidthOver(_, _)
MaxLineWidthOver(lines, i) ==
    IF i > Len(lines) THEN 0
    ELSE LET rest == MaxLineWidthOver(lines, i + 1)
         IN  IF lines[i].line_width >= rest THEN lines[i].line_width ELSE rest

RECURSIVE SumLineHeight(_, _)
SumLineHeight(lines, i) ==
    IF i > Len(lines) THEN 0
    ELSE lines[i].line_height + SumLineHeight(lines, i + 1)

LeftTop(cfg) == [cfg EXCEPT !.horizontal_align = "Left", !.vertical_align = "Top"]

\* C20: total_width is the maximum line_width over the lines (0 without
\* lines), total_height the sum of their line_height, both the same as with
\* the alignment Left and Top; measure returns [total_width, total_height]
\* of layout on the same inputs.
C20_TotalsAndMeasure ==
    /\ LaidOut =>
          /\ text_layout.total_width = MaxLineWidthOver(text_layout.lines, 1)
          /\ text_layout.total_height = SumLineHeight(text_layout.lines, 1)
          /\ text_layout.total_width = TextDataLayout(LeftTop(config), texts).total_width
          /\ text_layout.total_height = TextDataLayout(LeftTop(config), texts).total_height
    /\ (LaidOut /\ measured /= NoMeasure) =>
          measured = <<text_layout.total_width, text_layout.total_height>>

\* layout and measure have both returned, for a layout whose widest line is
\* not its last and whose alignment is not Left and Top
C20_Witness ==
    /\ LaidOut
    /\ measured /= NoMeasure
    /\ config.horizontal_align /= "Left"
    /\ config.vertical_align /= "Top"
    /\ Len(text_layout.lines) >= 2
    /\ text_layout.lines[Len(text_layout.lines)].glyphs /= <<>>
    /\ text_layout.lines[Len(text_layout.lines)].line_width < text_layout.total_width
    /\ text_layout.total_height > 0

\* the line records the engine built for the call, in the order of the lines
\* of the layout; a record that a wrap pushed has no metrics, a record that
\* a line break or the end of the text finalized has them
LineRecords == LayoutEngineRun(config, texts).lines

\* line i of the layout was started by a wrap
StartedByWrap(i) == i > 1 /\ ~IsSome(LineRecords[i - 1].metrics)

\* C21: no line that a wrap started begins with the glyph of a whitespace
\* separator.
C21_NoWrappedLeadingSpace ==
    LaidOut =>
        \A i \in 1..Len(text_layout.lines) :
            (StartedByWrap(i) /\ text_layout.lines[i].glyphs /= <<>>) =>
                ~IsWhitespace(text_layout.lines[i].glyphs[1].glyph_id.glyph_idx)

\* the fragments of the chars that the runs of the call hand to the engine:
\* the contents of the runs whose face resolves, one after the other
RECURSIVE InputFragments(_, _)
InputFragments(elements, i) ==
    IF i > Len(elements) THEN <<>>
    ELSE (IF /\ IsSome(FontStorageFont(elements[i].font_id))
             /\ HasLineMetrics(elements[i].font_id)
          THEN [k \in 1..Len(elements[i].content) |->
                   CreateFragment(elements[i].font_id, elements[i].content[k],
                                  elements[i].user_data)]
          ELSE <<>>)
         \o InputFragments(elements, i + 1)

\* the glyphs of a layout in reading order, each with the index of its line
\* and its place on the line
RECURSIVE PlacedGlyphs(_, _)
PlacedGlyphs(lines, i) ==
    IF i > Len(lines) THEN <<>>
    ELSE [k \in 1..Len(lines[i].glyphs) |->
             [line |-> i, place |-> k,
              glyph_idx |-> lines[i].glyphs[k].glyph_id.glyph_idx,
              x |-> lines[i].glyphs[k].x]]
         \o PlacedGlyphs(lines, i + 1)

IsRegular(fr) == ClassifyChar(fr.ch).kind = "Regular"

PlacedRegular(p) == ~IsWhitespace(p.glyph_idx)

\* the words of the input: the maximal runs a..b of regular chars
IsWord(frs, a, b) ==
    /\ a <= b
    /\ \A j \in a..b : IsRegular(frs[j])
    /\ a > 1 => ~IsRegular(frs[a - 1])
    /\ b < Len(frs) => ~IsRegular(frs[b + 1])

\* how many regular chars the input holds up to position j
RegularUpTo(frs, j) == Cardinality({i \in 1..j : IsRegular(frs[i])})

WordWraps == config.wrap_style = "WordWrap" /\ config.max_width /= None

\* the word a..b of the input lies whole on one line of the layout
OnOneLine(frs, placed, a, b) ==
    \A j \in a..b :
        placed[RegularUpTo(frs, j)].line = placed[RegularUpTo(frs, a)].line

\* the word a..b is alone on its line, from the start of the line
OnItsOwnLine(frs, placed, a, b) ==
    /\ OnOneLine(frs, placed, a, b)
    /\ placed[RegularUpTo(frs, a)].place = 1
    /\ \A n \in 1..Len(placed) :
          placed[n].line = placed[RegularUpTo(frs, a)].line
              => n \in RegularUpTo(frs, a)..RegularUpTo(frs, b)

\* the engine when the word that starts at position a of the input arrives:
\* the chars before it have been processed one by one
EngineBefore(frs, a) ==
    ProcessTextRuns(LayoutEngineNew, config,
                    [k \in 1..(a - 1) |-> TextElement(frs[k].font_id, <<frs[k].ch>>,
                                           frs[k].user_data)],
                    1)

\* the word does not fit after the content of the current line
DoesNotFitAfter(e, word) ==
    /\ IsSome(e.line_buf)
    /\ ProjectedConcatLength(e.line_buf[1], word) > config.max_width

\* C22: under WordWrap with a max_width, every regular char has its glyph;
\* the glyphs of a word lie on one line unless wrap_hard_break is set and
\* the word alone is wider than max_width; a word that does not fit after
\* the content of the current line but fits on an empty line begins the
\* next line and lies on it whole; without wrap_hard_break a word wider than
\* max_width is alone on its line.
C22_WordsStayWhole ==
    (LaidOut /\ WordWraps) =>
        LET frs == InputFragments(texts, 1)
            placed == SelectSeq(PlacedGlyphs(text_layout.lines, 1), PlacedRegular)
        IN  /\ Len(placed) = RegularUpTo(frs, Len(frs))
            /\ \A a \in 1..Len(frs) : \A b \in a..Len(frs) :
                  IsWord(frs, a, b) =>
                      LET word == FromFragments(SubSeq(frs, a, b))
                          before == EngineBefore(frs, a)
                          first == placed[RegularUpTo(frs, a)]
                      IN  /\ ~(config.wrap_hard_break /\ Width(word) > config.max_width)
                                => OnOneLine(frs, placed, a, b)
                          /\ (Width(word) <= config.max_width
                                 /\ DoesNotFitAfter(before, word))
                                => /\ first.line = Len(before.lines) + 2
                                   /\ first.place = 1
                                   /\ OnOneLine(frs, placed, a, b)
                          /\ (~config.wrap_hard_break /\ Width(word) > config.max_width)
                                => OnItsOwnLine(frs, placed, a, b)

\* without wrap_hard_break, a word of two glyphs wider than max_width that
\* did not fit after the content of the line before it
C22_Witness ==
    /\ LaidOut
    /\ WordWraps
    /\ ~config.wrap_hard_break
    /\ \E i \in 2..Len(text_layout.lines) :
          /\ StartedByWrap(i)
          /\ Len(text_layout.lines[i].glyphs) = 2
          /\ text_layout.lines[i].line_width > config.max_width
          /\ \A k \in 1..2 :
                ~IsWhitespace(text_layout.lines[i].glyphs[k].glyph_id.glyph_idx)

\* the glyphs a2..b2 of the word a..b are a chunk: they share a line that no
\* glyph of the word next to them shares
IsChunk(frs, placed, a, b, a2, b2) ==
    /\ a <= a2 /\ a2 <= b2 /\ b2 <= b
    /\ \A j \in a2..b2 :
          placed[RegularUpTo(frs, j)].line = placed[RegularUpTo(frs, a2)].line
    /\ a2 > a => placed[RegularUpTo(frs, a2 - 1)].line
                     < placed[RegularUpTo(frs, a2)].line
    /\ b2 < b => placed[RegularUpTo(frs, b2 + 1)].line
                     > placed[RegularUpTo(frs, b2)].line

\* C23: when a word is hard-broken (WordWrap, wrap_hard_break, the word wider
\* than max_width), each of its chunks begins a line, the chunks lie on
\* consecutive lines, a chunk that is followed by another is a whole line,
\* and each chunk is one glyph that is itself wider than max_width or the
\* longest run of the unplaced glyphs that fits within max_width on an empty
\* line: with the next glyph it would exceed max_width.
C23_HardBreakIsGreedy ==
    (LaidOut /\ WordWraps /\ config.wrap_hard_break) =>
        LET frs == InputFragments(texts, 1)
            placed == SelectSeq(PlacedGlyphs(text_layout.lines, 1), PlacedRegular)
        IN  \A a \in 1..Len(frs) : \A b \in a..Len(frs) :
                (IsWord(frs, a, b)
                    /\ Width(FromFragments(SubSeq(frs, a, b))) > config.max_width) =>
                    \A a2 \in a..b : \A b2 \in a2..b :
                        IsChunk(frs, placed, a, b, a2, b2) =>
                            LET line == placed[RegularUpTo(frs, a2)].line
                            IN  /\ placed[RegularUpTo(frs, a2)].place = 1
                                /\ a2 > a => placed[RegularUpTo(frs, a2 - 1)].line = line - 1
                                /\ b2 < b => Len(text_layout.lines[line].glyphs) = b2 - a2 + 1
                                /\ \/ /\ a2 = b2
                                      /\ Width(FromFragments(SubSeq(frs, a2, a2)))
                                             > config.max_width
                                   \/ /\ Width(FromFragments(SubSeq(frs, a2, b2)))
                                             <= config.max_width
                                      /\ b2 < b =>
                                            Width(FromFragments(SubSeq(frs, a2, b2 + 1)))
                                                > config.max_width

\* a word of three glyphs, hard-broken after the two that fit
C23_Witness ==
    /\ LaidOut
    /\ WordWraps
    /\ config.wrap_hard_break
    /\ texts = <<TextElement(1, <<"a", "a", "a">>, "p")>>
    /\ Len(text_layout.lines) = 2
    /\ Len(text_layout.lines[1].glyphs) = 2
    /\ Len(text_layout.lines[2].glyphs) = 1

IsLineBreak(fr) == ClassifyChar(fr.ch).kind = "LineBreak"

\* the scaled line height of a face
FaceLineHeight(f) ==
    LET lm == HorizontalLineMetrics(f)
        raw == lm.ascent - lm.descent + lm.line_gap
    IN  IF raw * config.line_height_scale >= 0
        THEN raw * config.line_height_scale ELSE 0

\* C24: a single run in a face the storage holds, of n >= 1 line breaks and
\* nothing else, gives n + 1 lines without glyphs, of line_width 0 and of
\* the scaled line height of the run; and whenever a run is processed, every
\* line break finalizes a line and so does the end of the text: the lines
\* finalized with metrics are one more than the line breaks, the last line
\* is one of them, and the layout has at least that many lines.
C24_LineBreaksMakeLines ==
    LaidOut =>
        LET frs == InputFragments(texts, 1)
            n == Cardinality({j \in 1..Len(frs) : IsLineBreak(frs[j])})
            records == LineRecords
        IN  /\ (Len(texts) = 1 /\ n >= 1 /\ n = Len(frs)) =>
                  /\ Len(text_layout.lines) = n + 1
                  /\ \A i \in 1..(n + 1) :
                        /\ text_layout.lines[i].glyphs = <<>>
                        /\ text_layout.lines[i].line_width = 0
                        /\ text_layout.lines[i].line_height
                               = FaceLineHeight(texts[1].font_id)
            /\ frs /= <<>> =>
                  /\ Cardinality({i \in 1..Len(records) : IsSome(records[i].metrics)})
                         = n + 1
                  /\ IsSome(records[Len(records)].metrics)
                  /\ Len(text_layout.lines) = Len(records)
                  /\ Len(text_layout.lines) >= n + 1

\* a run of two line breaks or more and nothing else, with a line height
\* that is not zero
C24_Witness ==
    /\ LaidOut
    /\ Len(texts) = 1
    /\ Len(texts[1].content) >= 2
    /\ \A k \in 1..Len(texts[1].content) : texts[1].content[k] = "LF"
    /\ Len(text_layout.lines) = Len(texts[1].content) + 1
    /\ text_layout.total_height > 0

\* the engine after the first n chars of the input, processed one by one
EngineAfter(frs, n) == EngineBefore(frs, n + 1)

\* the pen of the current line (0 without a line buffer)
Cursor(e) == IF IsSome(e.line_buf) THEN e.line_buf[1].next_origin_x ELSE 0

\* how many glyphs the engine holds in its lines and its line buffer
RECURSIVE GlyphsInRecords(_, _)
GlyphsInRecords(records, i) ==
    IF i > Len(records) THEN 0
    ELSE (IF IsSome(records[i].buffer) THEN Len(records[i].buffer[1].glyphs) ELSE 0)
         + GlyphsInRecords(records, i + 1)

GlyphsHeld(e) ==
    GlyphsInRecords(e.lines, 1)
        + (IF IsSome(e.line_buf) THEN Len(e.line_buf[1].glyphs) ELSE 0)

\* the width of a tab in the face f
TabWidth(f) == TAB_SIZE_IN_SPACES * MetricsIndexed(f, " ").advance_width

\* C25: a tab emits no glyph and moves the pen of the current line to the
\* next tab stop: a multiple of T = 4 x the advance of the space of the
\* run's face, greater than the pen before the tab and at most that pen + T;
\* the glyph of a regular char that follows the tab on the same line has its
\* origin at that stop.
C25_TabMovesToNextStop ==
    LaidOut =>
        LET frs == InputFragments(texts, 1)
            all == PlacedGlyphs(text_layout.lines, 1)
        IN  \A j \in 1..Len(frs) :
                ClassifyChar(frs[j].ch).kind = "Tab" =>
                    LET before == FlushWord(EngineBefore(frs, j), config)
                        after == EngineAfter(frs, j)
                        T == TabWidth(frs[j].font_id)
                        stop == Cursor(after)
                        next == GlyphsHeld(after) + 1
                    IN  /\ GlyphsHeld(after) = GlyphsHeld(before)
                        /\ after.lines = before.lines
                        /\ stop % T = 0
                        /\ stop > Cursor(before)
                        /\ stop <= Cursor(before) + T
                        /\ (j < Len(frs) /\ IsRegular(frs[j + 1])
                              /\ all[next].line = Len(after.lines) + 1) =>
                              all[next].x - frs[j + 1].metrics.xmin
                                  - HorizontalOffset(config, text_layout.total_width,
                                        text_layout.lines[all[next].line].line_width)
                                  = stop

\* twice the shift that an alignment Left, Center or Right (Top, Middle or
\* Bottom) gives to content of the given size in a box of the target size
TwiceShift(align, target, size) ==
    CASE align \in {"Left", "Top"}      -> 0
      [] align \in {"Center", "Middle"} -> target - size
      [] align \in {"Right", "Bottom"}  -> 2 * (target - size)

\* C26: against the layout of the same input under Left and Top, the lines,
\* their glyphs, line_width, line_height, total_width and total_height are
\* the same; every glyph of a line is moved right by 0, (target_width -
\* line_width) / 2 or target_width - line_width, and every glyph and every
\* top and bottom down by 0, (target_height - total_height) / 2 or
\* target_height - total_height, where a target is the max_ value when set
\* and the total otherwise.
C26_AlignmentOnlyShifts ==
    LaidOut =>
        LET base == TextDataLayout(LeftTop(config), texts)
            target_width == IF config.max_width /= None THEN config.max_width
                            ELSE text_layout.total_width
            target_height == IF config.max_height /= None THEN config.max_height
                             ELSE text_layout.total_height
            down == TwiceShift(config.vertical_align, target_height,
                               text_layout.total_height)
        IN  /\ text_layout.total_width = base.total_width
            /\ text_layout.total_height = base.total_height
            /\ Len(text_layout.lines) = Len(base.lines)
            /\ \A i \in 1..Len(text_layout.lines) :
                  LET line == text_layout.lines[i]
                      right == TwiceShift(config.horizontal_align, target_width,
                                          line.line_width)
                  IN  /\ line.line_width = base.lines[i].line_width
                      /\ line.line_height = base.lines[i].line_height
                      /\ 2 * (line.top - base.lines[i].top) = down
                      /\ 2 * (line.bottom - base.lines[i].bottom) = down
                      /\ Len(line.glyphs) = Len(base.lines[i].glyphs)
                      /\ \A k \in 1..Len(line.glyphs) :
                            /\ line.glyphs[k].glyph_id = base.lines[i].glyphs[k].glyph_id
                            /\ 2 * (line.glyphs[k].x - base.lines[i].glyphs[k].x) = right
                            /\ 2 * (line.glyphs[k].y - base.lines[i].glyphs[k].y) = down

\* a layout of two lines of different widths in a box given by max_width
\* and max_height, neither Left nor Top
C26_Witness ==
    /\ LaidOut
    /\ config.max_width /= None
    /\ config.max_height /= None
    /\ config.horizontal_align /= "Left"
    /\ config.vertical_align /= "Top"
    /\ Len(text_layout.lines) = 2
    /\ text_layout.lines[1].glyphs /= <<>>
    /\ text_layout.lines[2].glyphs /= <<>>
    /\ text_layout.lines[1].line_width /= text_layout.lines[2].line_width
    /\ text_layout.total_width < config.max_width
    /\ text_layout.total_height > 0

\* process_text_run returns before it touches the engine
Skipped(text) ==
    \/ ~IsSome(FontStorageFont(text.font_id))
    \/ ~HasLineMetrics(text.font_id)
    \/ text.content = <<>>

NotSkipped(text) == ~Skipped(text)

\* C27: when the run list is empty or every run is skipped (unknown face, no
\* line metrics, empty content), the layout has no lines and total_width =
\* total_height = 0; and the layout is the layout of the runs that are not
\* skipped.
C27_SkippedRunsLeaveNoTrace ==
    LaidOut =>
        LET kept == SelectSeq(texts, NotSkipped)
        IN  /\ kept = <<>> =>
                  /\ text_layout.lines = <<>>
                  /\ text_layout.total_width = 0
                  /\ text_layout.total_height = 0
            /\ text_layout = TextDataLayout(config, kept)

\* a skipped run with content, before a run that is laid out
C27_Witness ==
    /\ LaidOut
    /\ Len(texts) = 2
    /\ Skipped(texts[1])
    /\ texts[1].content /= <<>>
    /\ NotSkipped(texts[2])
    /\ text_layout.total_width > 0

\* the number of glyphs on each line of a layout: glyphs keep their input
\* order, so two layouts of the same runs put every glyph on the same line
\* index exactly when these sequences are equal
GlyphsPerLine(tl) ==
    [i \in 1..Len(tl.lines) |-> Len(tl.lines[i].glyphs)]

\* the second pass: the same runs and settings, max_width set to the
\* total_width of the first pass
SecondPass == TextDataLayout([config EXCEPT !.max_width = text_layout.total_width], texts)

\* C28: when max_width is set and the first layout's total_width does not
\* exceed it, a second layout of the same runs with max_width = that
\* total_width puts every glyph on the same line index.
C28_TwoPassStable ==
    (LaidOut /\ config.max_width /= None
       /\ text_layout.total_width <= config.max_width)
        => GlyphsPerLine(SecondPass) = GlyphsPerLine(text_layout)

\* item reports the size of glyph g and its first width * height bytes are
\* the coverage of g
CoverageKept(item, g) ==
    LET size == GlyphMetrics(g).width * GlyphMetrics(g).height
    IN  /\ item.width = GlyphMetrics(g).width
        /\ item.height = GlyphMetrics(g).height
        /\ Len(item.data) >= size
        /\ SubSeq(item.data, 1, size) = Rasterize(g)

\* C30: in every state the CPU cache reaches, whatever was inserted, hit,
\* evicted or cleared before, an item that GlyphCache::get returns for a
\* glyph has at least width * height bytes and they are the glyph's
\* rasterized coverage; the item of the last call is such an item; a glyph
\* whose width * height exceeds every block size gets None, and the
\* renderer then uses the bitmap it rasterizes itself.
C30_CoverageWithinReportedSize ==
    /\ \A g \in ClassifyGlyphs :
          LET r == GlyphCacheGet(cpu_caches, g)
              size == GlyphMetrics(g).width * GlyphMetrics(g).height
          IN  /\ r.item /= NoCpuItem => CoverageKept(r.item, g)
              /\ (FaceResolves(g)
                    /\ \A i \in 1..Len(cpu_caches) : cpu_caches[i].block_size < size)
                    => /\ r.item = NoCpuItem
                       /\ r.caches = cpu_caches
                       /\ RenderGlyphCached(r.item, g).data = Rasterize(g)
                       /\ RenderGlyphCached(r.item, g).width = GlyphMetrics(g).width
                       /\ RenderGlyphCached(r.item, g).height = GlyphMetrics(g).height
    /\ cpu_item /= NoCpuItem => \E g \in ClassifyGlyphs : CoverageKept(cpu_item, g)

\* a hit that returns a whole block, larger than the glyph, whose bytes
\* behind the glyph are those of a larger glyph evicted from the block
C30_Witness ==
    /\ cpu_item /= NoCpuItem
    /\ Len(cpu_item.data) > cpu_item.width * cpu_item.height
    /\ \E k \in 1..Len(cpu_item.data) :
          /\ k > cpu_item.width * cpu_item.height
          /\ cpu_item.data[k] /= 0

(***************************************************************************)
(* CpuRenderer::render (src/renderer/cpu_renderer.rs) on the layouts that  *)
(* TextData::layout returns.  The positions of these layouts are whole     *)
(* numbers, which y.floor() and x.floor() leave as they are.               *)
(***************************************************************************)
\* line.bottom <= 0.0 || line.top >= height as f32: the line is skipped
LineCulled(line, height) == line.bottom <= 0 \/ line.top >= height

\* the pixel test of a bug that lets the column and the row equal to the
\* image size through
InsideImageInclusive(ix, iy, size) ==
    /\ iy >= 0 /\ iy <= size[2]
    /\ ix >= 0 /\ ix <= size[1]

\* the tests of render_glyph on the position of a pixel: y < 0.0, iy < 0,
\* iy >= image_size[1], x < 0.0, ix < 0, ix >= image_size[0] all skip it
InsideImage(ix, iy, size) ==
    /\ iy >= 0 /\ iy < size[2]
    /\ ix >= 0 /\ ix < size[1]

\* the row and column loops of render_glyph: the calls of f, each with the
\* line, glyph, row and column that made it
GlyphPixelCalls(cached, glyph_pos, size, li, gi) ==
    LET all == [k \in 1..(cached.width * cached.height) |->
                   LET row == (k - 1) \div cached.width
                       col == (k - 1) % cached.width
                   IN  [pos |-> <<glyph_pos.x + col, glyph_pos.y + row>>,
                        alpha |-> cached.data[row * cached.width + col + 1],
                        line |-> li, glyph |-> gi, row |-> row, col |-> col]]
        Called(c) == c.alpha /= 0 /\ InsideImage(c.pos[1], c.pos[2], size)
    IN  SelectSeq(all, Called)

\* CpuRenderer::render_glyph; st holds the cache, the item of the last
\* GlyphCache::get and the calls made so far
CpuRenderGlyph(st, glyph_pos, size, li, gi) ==
    LET g == GlyphKey(glyph_pos.glyph_id.font_id, glyph_pos.glyph_id.glyph_idx)
        r == GlyphCacheGet(st.caches, g)
        cached == RenderGlyphCached(r.item, g)
        after == [caches |-> r.caches, item |-> r.item, calls |-> st.calls]
    IN  IF cached = NoCpuItem THEN after
        ELSE IF cached.width = 0 \/ cached.height = 0 THEN after
        ELSE [after EXCEPT
                 !.calls = @ \o GlyphPixelCalls(cached, glyph_pos, size, li, gi)]

\* for glyph in &line.glyphs
RECURSIVE CpuRenderGlyphs(_, _, _, _, _)
CpuRenderGlyphs(st, glyphs, size, li, gi) ==
    IF gi > Len(glyphs) THEN st
    ELSE CpuRenderGlyphs(CpuRenderGlyph(st, glyphs[gi], size, li, gi),
                      glyphs, size, li, gi + 1)

\* for line in &layout.lines
RECURSIVE CpuRenderLines(_, _, _, _)
CpuRenderLines(st, lines, size, li) ==
    IF li > Len(lines) THEN st
    ELSE IF LineCulled(lines[li], size[2])
    THEN CpuRenderLines(st, lines, size, li + 1)
    ELSE CpuRenderLines(CpuRenderGlyphs(st, lines[li].glyphs, size, li, 1),
                     lines, size, li + 1)

\* CpuRenderer::render(layout, image_size, font_storage, f)
CpuRendererRender(cc, item, lay, size) ==
    IF size[1] = 0 \/ size[2] = 0
    THEN [caches |-> cc, item |-> item, calls |-> <<>>]
    ELSE CpuRenderLines([caches |-> cc, item |-> item, calls |-> <<>>],
                     lay.lines, size, 1)

(***************************************************************************)
(* SpecCpuRender: a text is laid out and the layout is rendered into       *)
(* images of several sizes by a CpuRenderer whose cache holds the small    *)
(* glyph and the wide glyph in two tiers, or the small glyph only.         *)
(***************************************************************************)
CpuRenderConfigs ==
    {[max_width |-> w, max_height |-> h, horizontal_align |-> a[1],
      vertical_align |-> a[2], line_height_scale |-> sc,
      wrap_style |-> "NoWrap", wrap_hard_break |-> TRUE] :
        w \in {None, 4},
        h \in {None, 10},
        a \in {<<"Left", "Top">>, <<"Right", "Bottom">>},
        sc \in {0, 1}}

CpuRenderTexts == {<<TextElement(1, c, "p")>> : c \in SeqsUpTo(Chars, MaxChars - 1)}

CpuRenderCaches ==
    {<<BlockConfig(16, 1), BlockConfig(64, 1)>>, <<BlockConfig(16, 2)>>}

ImageSizes == {<<0, 10>>, <<5, 0>>, <<5, 6>>, <<20, 10>>, <<20, 30>>}

InitCpuRender ==
    /\ config \in CpuRenderConfigs
    /\ texts \in CpuRenderTexts
    /\ text_layout = NoLayout
    /\ measured = NoMeasure
    /\ cs = CacheStateNew(TierCapacity, Keys)
    /\ returned = NoneReturned
    /\ evicted = FALSE
    /\ RendererNew(<<Config(8, 1, 8)>>, 0)
    /\ LocksUnused
    /\ \E pairs \in CpuRenderCaches :
          /\ cpu_caches = GlyphCacheNew(pairs)
          /\ cpu_recency = [i \in 1..Len(pairs) |-> <<>>]
    /\ cpu_item = NoCpuItem
    /\ image_size = <<0, 0>>
    /\ cpu_calls = <<>>

\* the keys that render asks of the cache, in order: those of the glyphs
\* of the lines it does not skip
RECURSIVE AskedKeys(_, _, _)
AskedKeys(lines, size, li) ==
    IF size[1] = 0 \/ size[2] = 0 \/ li > Len(lines) THEN <<>>
    ELSE (IF LineCulled(lines[li], size[2]) THEN <<>>
          ELSE [k \in 1..Len(lines[li].glyphs) |->
                   GlyphKey(lines[li].glyphs[k].glyph_id.font_id,
                            lines[li].glyphs[k].glyph_id.glyph_idx)])
         \o AskedKeys(lines, size, li + 1)

RECURSIVE AskedAll(_, _, _, _)
AskedAll(rec, cc, keys, i) ==
    IF i > Len(keys) THEN rec
    ELSE AskedAll(Asked(rec, cc, keys[i]), cc, keys, i + 1)

\* CpuRenderer::render of the layout into an image of one of the sizes
CpuRender ==
    /\ text_layout /= NoLayout
    /\ \E size \in ImageSizes :
          LET r == CpuRendererRender(cpu_caches, cpu_item, text_layout, size)
          IN  /\ image_size' = size
              /\ cpu_caches' = r.caches
              /\ cpu_item' = r.item
              /\ cpu_calls' = r.calls
              /\ cpu_recency' = AskedAll(cpu_recency, cpu_caches,
                                         AskedKeys(text_layout.lines, size, 1), 1)
    /\ UNCHANGED <<renderVars, tierVars, layoutVars, fontSystemVars>>

NextCpuRender == TextLayoutCall \/ CpuRender \/ CpuClear

SpecCpuRender == InitCpuRender /\ [][NextCpuRender]_vars

\* call a comes before call b in layout reading order, and in row-major
\* order inside one glyph
ReadsBefore(a, b) ==
    \/ a.line < b.line
    \/ a.line = b.line /\ a.glyph < b.glyph
    \/ a.line = b.line /\ a.glyph = b.glyph /\ a.row < b.row
    \/ a.line = b.line /\ a.glyph = b.glyph /\ a.row = b.row /\ a.col < b.col

\* C31: every call of the pixel callback has a position inside the image
\* and a coverage other than 0; the calls come in layout reading order
\* across glyphs and in row-major order inside a glyph; an image of zero
\* width or height gets no call.
C31_CallsInsideImageInOrder ==
    /\ \A i \in 1..Len(cpu_calls) :
          /\ cpu_calls[i].pos[1] >= 0 /\ cpu_calls[i].pos[1] < image_size[1]
          /\ cpu_calls[i].pos[2] >= 0 /\ cpu_calls[i].pos[2] < image_size[2]
          /\ cpu_calls[i].alpha /= 0
    /\ \A i \in 1..(Len(cpu_calls) - 1) : ReadsBefore(cpu_calls[i], cpu_calls[i + 1])
    /\ (image_size[1] = 0 \/ image_size[2] = 0) => cpu_calls = <<>>

\* a render of two glyphs that drew pixels of both, one of them cut by the
\* right and by the lower edge of the image
C31_Witness ==
    /\ \E i, j \in 1..Len(cpu_calls) : cpu_calls[i].glyph /= cpu_calls[j].glyph
    /\ \E i \in 1..Len(cpu_calls) : cpu_calls[i].row > 0 /\ cpu_calls[i].col > 0
    /\ \E l \in 1..Len(text_layout.lines) :
          \E k \in 1..Len(text_layout.lines[l].glyphs) :
             LET gp == text_layout.lines[l].glyphs[k]
                 m == MetricsIndexed(gp.glyph_id.font_id, gp.glyph_id.glyph_idx)
             IN  /\ \E i \in 1..Len(cpu_calls) :
                       cpu_calls[i].line = l /\ cpu_calls[i].glyph = k
                 /\ gp.x + m.width > image_size[1]
                 /\ gp.y + m.height > image_size[2]

\* a render has been made
Rendered == image_size /= <<0, 0>>

\* the pixels of the glyph at place k of line l of the layout that have a
\* coverage other than 0 and a position inside the image
VisiblePixels(l, k) ==
    LET gp == text_layout.lines[l].glyphs[k]
        g == GlyphKey(gp.glyph_id.font_id, gp.glyph_id.glyph_idx)
        w == GlyphMetrics(g).width
    IN  {p \in 1..Len(Rasterize(g)) :
            /\ Rasterize(g)[p] /= 0
            /\ gp.x + ((p - 1) % w) >= 0
            /\ gp.x + ((p - 1) % w) < image_size[1]
            /\ gp.y + ((p - 1) \div w) >= 0
            /\ gp.y + ((p - 1) \div w) < image_size[2]}

\* C39: after a render, every pixel of every glyph of the layout that has a
\* coverage other than 0 and a position inside the image was passed to the
\* callback exactly once, with that position and coverage.
C39_NoVisiblePixelSuppressed ==
    Rendered =>
        \A l \in 1..Len(text_layout.lines) :
            \A k \in 1..Len(text_layout.lines[l].glyphs) :
                LET gp == text_layout.lines[l].glyphs[k]
                    g == GlyphKey(gp.glyph_id.font_id, gp.glyph_id.glyph_idx)
                    w == GlyphMetrics(g).width
                IN  \A p \in VisiblePixels(l, k) :
                        LET made == {i \in 1..Len(cpu_calls) :
                                        /\ cpu_calls[i].line = l
                                        /\ cpu_calls[i].glyph = k
                                        /\ cpu_calls[i].row = (p - 1) \div w
                                        /\ cpu_calls[i].col = (p - 1) % w}
                        IN  /\ Cardinality(made) = 1
                            /\ \A i \in made :
                                  /\ cpu_calls[i].alpha = Rasterize(g)[p]
                                  /\ cpu_calls[i].pos =
                                        <<gp.x + ((p - 1) % w), gp.y + ((p - 1) \div w)>>

\* the keys of an atlas from lru_head along the older links, n nodes at most
RECURSIVE KeysFromHead(_, _, _)
KeysFromHead(s, idx, n) ==
    IF idx = None \/ n = 0 THEN <<>>
    ELSE <<s.lru_keys[idx]>> \o KeysFromHead(s, s.lru_nodes[idx].older, n - 1)

\* C32: in every tier of the CPU cache the cached keys are never more than
\* capacity and are exactly the keys most recently asked of the tier, the
\* list from lru_head being in that order, each key in a block of its own;
\* asking for an absent key of a full tier evicts exactly the key asked
\* longest ago and gives its block to the new key, every other key staying
\* cached in its block; without a full tier nothing is evicted; asking for a
\* cached key keeps keys and blocks and puts the key at the head.
C32_VecAtlasIsLru ==
    \A i \in 1..Len(cpu_caches) :
        LET s == cpu_caches[i]
            rec == cpu_recency[i]
            cached == MappedKeys(s)
        IN  /\ Cardinality(cached) <= s.capacity
            /\ cached = {rec[k] : k \in 1..Len(rec)}
            /\ KeysFromHead(s, s.lru_head, s.capacity + 1) = rec
            /\ \A a, b \in cached : a /= b => s.lru_map[a] /= s.lru_map[b]
            /\ \A g \in ClassifyGlyphs :
                  LET r == VecGetOrInsertWith(s, g, Rasterize(g))
                      after == MappedKeys(r.st)
                  IN  /\ r.st.lru_keys[r.st.lru_head] = g
                      /\ \A k \in cached \cap after : r.st.lru_map[k] = s.lru_map[k]
                      /\ g \in cached => after = cached
                      /\ (g \notin cached /\ Cardinality(cached) < s.capacity) =>
                            after = cached \cup {g}
                      /\ (g \notin cached /\ Cardinality(cached) = s.capacity) =>
                            /\ after = (cached \ {rec[Len(rec)]}) \cup {g}
                            /\ r.st.lru_map[g] = s.lru_map[rec[Len(rec)]]

\* a tier of two blocks that is full, after an eviction: a block still holds
\* bytes of a glyph that is no longer cached
C32_Witness ==
    \E i \in 1..Len(cpu_caches) :
        /\ cpu_caches[i].capacity = 2
        /\ Len(cpu_recency[i]) = 2
        /\ \E b \in 0..1 : \E k \in 1..cpu_caches[i].block_size :
              /\ cpu_caches[i].data[b][k] /= 0
              /\ (cpu_caches[i].data[b][k] \div 1000) \notin MappedKeys(cpu_caches[i])

\* what get_or_insert_with returns to the call that inserts key g with the
\* bytes Rasterize(g), as GlyphCache::get does: the return of a miss does
\* not depend on what the atlas holds
InsertReturned(s, g) ==
    VecGetOrInsertWith(VecAtlasNew(s.capacity, s.block_size, DOMAIN s.lru_map),
                       g, Rasterize(g)).data

\* C33: for a key that is cached, get_or_insert_with returns data equal to
\* what the call that inserted the key returned, and neither the returned
\* data nor the blocks depend on the producer it is given.
C33_HitReturnsInsertedData ==
    \A i \in 1..Len(cpu_caches) :
        \A g \in MappedKeys(cpu_caches[i]) :
            LET s == cpu_caches[i]
                hit == VecGetOrInsertWith(s, g, <<>>)
            IN  /\ hit.data = InsertReturned(s, g)
                /\ hit.st.data = s.data
                /\ hit = VecGetOrInsertWith(s, g, Rasterize(LargeGlyph))

(***************************************************************************)
(* FontSystem (src/font_system.rs): threads call its methods; each method  *)
(* locks the parking_lot Mutexes of FontSystem as its statements do.  The  *)
(* callbacks of the render methods do not call the FontSystem.             *)
(***************************************************************************)
NumThreads == 2

NoThread == 0

Threads == 1..NumThreads

\* the Mutex fields of FontSystem (the wgpu renderer is behind a feature)
RendererLocks == {"cpu_renderer", "gpu_renderer"}

Locks == {"font_storage"} \cup RendererLocks

Methods ==
    {"layout_text", "load_font_binary", "remove_face", "cpu_init",
     "cpu_cache_clear", "cpu_render", "gpu_init", "gpu_cache_clear",
     "gpu_render", "try_gpu_render"}

\* the renderer Mutex a method locks
RendererOf(m) ==
    IF m \in {"cpu_init", "cpu_cache_clear", "cpu_render"} THEN "cpu_renderer"
    ELSE "gpu_renderer"

\* the statements of a method that lock: cpu_init and gpu_init lock the
\* renderer in two statements, one after the other
Statements(m) == IF m \in {"cpu_init", "gpu_init"} THEN 2 ELSE 1

\* the lock plan of a bug: layout_text locks the cpu renderer while it holds
\* the font storage
LockPlanStorageFirst(m) ==
    IF m \in {"layout_text"} THEN <<"font_storage", "cpu_renderer">>
    ELSE IF m \in {"load_font_binary", "remove_face"} THEN <<"font_storage">>
    ELSE IF m \in {"cpu_render", "gpu_render", "try_gpu_render"}
    THEN <<RendererOf(m), "font_storage">>
    ELSE <<RendererOf(m)>>

\* the locks a statement of method m takes, outermost first; each guard
\* lives to the end of its statement
LockPlan(m) ==
    IF m \in {"layout_text", "load_font_binary", "remove_face"}
    THEN <<"font_storage">>
    ELSE IF m \in {"cpu_render", "gpu_render", "try_gpu_render"}
    THEN <<RendererOf(m), "font_storage">>
    ELSE <<RendererOf(m)>>

IdleThread == [method |-> "idle", statement |-> 0, held |-> <<>>, todo |-> <<>>]

\* FontSystem::new: the renderers are None
InitLocks ==
    /\ lock_owner = [l \in Locks |-> NoThread]
    /\ threads = [t \in Threads |-> IdleThread]
    /\ renderer_present = [l \in RendererLocks |-> FALSE]
    /\ font_db = Fonts
    /\ cs = CacheStateNew(TierCapacity, Keys)
    /\ returned = NoneReturned
    /\ evicted = FALSE
    /\ RendererNew(<<Config(8, 1, 8)>>, 0)
    /\ CpuUnused
    /\ LayoutUnused

\* thread t calls method m
Call(t, m) ==
    /\ threads[t].method = "idle"
    /\ threads' = [threads EXCEPT ![t] =
           [method |-> m, statement |-> 1, held |-> <<>>, todo |-> LockPlan(m)]]
    /\ UNCHANGED <<lock_owner, renderer_present, font_db, tierVars, renderVars,
                   cpuVars, layoutVars>>

\* thread t can take the next lock of its statement
CanLock(t) ==
    /\ threads[t].todo /= <<>>
    /\ lock_owner[threads[t].todo[1]] = NoThread

\* Mutex::lock returns in thread t; a render method that finds None in the
\* renderer takes no further lock
Lock(t) ==
    /\ CanLock(t)
    /\ LET l == threads[t].todo[1]
           rest == IF l \in RendererLocks /\ ~renderer_present[l] THEN <<>>
                   ELSE Tail(threads[t].todo)
       IN  /\ lock_owner' = [lock_owner EXCEPT ![l] = t]
           /\ threads' = [threads EXCEPT ![t].held = Append(@, l),
                                         ![t].todo = rest]
    /\ UNCHANGED <<renderer_present, font_db, tierVars, renderVars, cpuVars,
                   layoutVars>>

\* thread t holds every lock of its statement
CanUnlock(t) ==
    /\ threads[t].method /= "idle"
    /\ threads[t].todo = <<>>
    /\ threads[t].held /= <<>>

\* the statement of thread t ends and its guards are dropped, the innermost
\* first; the first statement of cpu_init and gpu_init stores None, the
\* second Some; after the last statement the method returns
Unlock(t) ==
    /\ CanUnlock(t)
    /\ LET th == threads[t]
           l == th.held[Len(th.held)]
           last == Len(th.held) = 1
       IN  /\ lock_owner' = [lock_owner EXCEPT ![l] = NoThread]
           /\ renderer_present' =
                 IF last /\ th.method \in {"cpu_init", "gpu_init"}
                 THEN [renderer_present EXCEPT ![l] = (th.statement = 2)]
                 ELSE renderer_present
           /\ threads' = [threads EXCEPT ![t] =
                 IF ~last
                 THEN [th EXCEPT !.held = SubSeq(th.held, 1, Len(th.held) - 1)]
                 ELSE IF th.statement < Statements(th.method)
                 THEN [th EXCEPT !.held = <<>>, !.statement = @ + 1,
                                 !.todo = LockPlan(th.method)]
                 ELSE IdleThread]
    /\ UNCHANGED <<font_db, tierVars, renderVars, cpuVars, layoutVars>>

NextLocks ==
    \/ \E t \in Threads : \E m \in Methods : Call(t, m)
    \/ \E t \in Threads : Lock(t)
    \/ \E t \in Threads : Unlock(t)

SpecLocks == InitLocks /\ [][NextLocks]_vars

\* thread t waits for a lock that another thread holds
Waits(t) == threads[t].todo /= <<>> /\ ~CanLock(t)

\* thread t does not wait, or the thread that holds the lock it waits for
\* gets to release it: the chain of waiting threads from t ends after at
\* most n threads in one that does not wait
RECURSIVE GetsLock(_, _)
GetsLock(t, n) ==
    \/ ~Waits(t)
    \/ n > 0 /\ GetsLock(lock_owner[threads[t].todo[1]], n - 1)

\* C34: no deadlock: whenever a thread is inside a method, some thread can
\* take its next lock or end its statement; no set of threads waits for
\* each other in a circle; no thread holds two renderer locks, and a thread
\* that holds the font storage takes no further lock.
C34_NoDeadlock ==
    /\ (\E t \in Threads : threads[t].method /= "idle") =>
          \E t \in Threads : CanLock(t) \/ CanUnlock(t)
    /\ \A t \in Threads : GetsLock(t, NumThreads)
    /\ \A t \in Threads :
          LET th == threads[t]
          IN  /\ Cardinality({i \in 1..Len(th.held) : th.held[i] \in RendererLocks}) <= 1
              /\ (\E i \in 1..Len(th.held) : th.held[i] = "font_storage") =>
                    th.todo = <<>>

\* a thread renders with the cpu renderer and holds its lock and the font
\* storage, while a thread that renders with the gpu renderer holds that
\* lock and waits for the font storage
C34_Witness ==
    \E t, u \in Threads :
        /\ threads[t].method = "cpu_render"
        /\ threads[t].held = <<"cpu_renderer", "font_storage">>
        /\ threads[u].method = "try_gpu_render"
        /\ threads[u].held = <<"gpu_renderer">>
        /\ Waits(u)

(***************************************************************************)
(* Renders between which faces are removed from the font storage           *)
(* (FontStorage::remove_face, src/font_storage.rs lines 60-63).            *)
(***************************************************************************)

\* FontStorage::remove_face(id), between two renders: try_render borrows the
\* storage for the whole call
RemoveFace(f) ==
    /\ pc = "idle"
    /\ f \in font_db
    /\ font_db' = font_db \ {f}
    /\ UNCHANGED <<renderVars, tierVars, cpuVars, layoutVars, lock_owner,
                   threads, renderer_present>>

NextRemoveFace ==
    \/ NextRender
    \/ \E f \in Fonts : RemoveFace(f)

SpecRemoveFace == InitRender /\ [][NextRemoveFace]_vars

\* glyph g has an entry in a tier of the cache cc
CachedIn(cc, g) == \E i \in 1..Len(cc) : cc[i].cache_state.lru_map[g] /= None

\* C35: when a render meets a glyph whose face was removed from the storage
\* and that has an entry in the cache, that iteration of the glyph loop
\* discards the entry.
C35_RemovedFaceEntryDiscarded ==
    [][(/\ pc = "glyph"
        /\ CurrentGlyph /= MissingFaceGlyph
        /\ FontId(CurrentGlyph) \notin font_db
        /\ CachedIn(caches, CurrentGlyph))
       => ~CachedIn(caches', CurrentGlyph)]_vars

(***************************************************************************)
(* Renders with atlases of several tiles, with textures larger than their  *)
(* tiles need, and the construction of a renderer from a config that       *)
(* CacheAtlas::new rejects.                                                *)
(***************************************************************************)

\* the panic of CacheAtlas::new (lines 329-331)
CacheAtlasNewPanics(c) ==
    c.tile_size * c.tiles_per_axis > c.texture_size

AtlasConfigChoices ==
    {<<Config(8, 2, 20)>>,
     <<Config(16, 2, 32), Config(8, 1, 8)>>,
     <<Config(16, 2, 24)>>}

\* the second glyph of a batch is refused while the first is the tail of its
\* tier, so that a batch with two tiles of one tier takes three glyphs
AtlasLayouts ==
    LayoutsOver({1, 2, MediumGlyph}, MaxGlyphs) \cup {<<(<<1, 2, 3>>)>>}

\* GpuRenderer::new has panicked: there is no renderer to call
RendererNotBuilt ==
    /\ caches = <<>>
    /\ pc = "panicked"
    /\ layout = <<>>
    /\ line_i = 1
    /\ glyph_i = 1
    /\ update_atlas_list = <<>>
    /\ instance_list = <<>>
    /\ result = "none"
    /\ stream = <<>>
    /\ atlas = {}
    /\ ever_failed = FALSE
    /\ last_failed = FALSE
    /\ is_retry = FALSE
    /\ prev_drawn = <<>>
    /\ is_rerender = FALSE
    /\ cache0 = <<>>
    /\ glyphs_left = 0

InitAtlas ==
    /\ cs = CacheStateNew(TierCapacity, Keys)
    /\ returned = NoneReturned
    /\ evicted = FALSE
    /\ \E configs \in AtlasConfigChoices :
          IF \E i \in 1..Len(configs) : CacheAtlasNewPanics(configs[i])
          THEN RendererNotBuilt
          ELSE RendererNew(configs, MaxGlyphs + 1)
    /\ CpuUnused
    /\ LayoutUnused
    /\ LocksUnused

NextAtlas ==
    \/ \E l \in AtlasLayouts : RenderStart(l)
    \/ RenderGlyph
    \/ \E o \in Outcomes : RenderFlushUpdate(o)
    \/ \E o \in Outcomes : RenderFlushDraw(o)
    \/ RenderRetry
    \/ \E o \in Outcomes : RenderStandalone(o)
    \/ \E o \in Outcomes : RenderFinalUpdate(o)
    \/ \E o \in Outcomes : RenderFinalDraw(o)
    \/ RenderReturn
    \/ RenderClearCache

SpecAtlas == InitAtlas /\ [][NextAtlas]_vars

\* the tile of slot k of a tier, by the formula of the specification
SlotTile(t, k) ==
    [x |-> (k % t.tiles_per_axis) * t.tile_size,
     y |-> (k \div t.tiles_per_axis) * t.tile_size]

\* the glyph box of an item lies in the tile of some slot of its tier, the
\* tile lies in the texture, and the margin of the tile stays free
BoxInTile(texture_index, texture_size, b) ==
    LET t == caches[texture_index + 1]
    IN  /\ texture_size = t.texture_size
        /\ \E k \in 0..(t.tiles_per_axis * t.tiles_per_axis - 1) :
              /\ b.min_x = SlotTile(t, k).x
              /\ b.min_y = SlotTile(t, k).y
        /\ b.min_x + t.tile_size <= t.texture_size
        /\ b.min_y + t.tile_size <= t.texture_size
        /\ b.min_x <= b.max_x
        /\ b.min_y <= b.max_y
        /\ b.max_x + ATLAS_MARGIN <= b.min_x + t.tile_size
        /\ b.max_y + ATLAS_MARGIN <= b.min_y + t.tile_size

\* the tiles of two slots of tier t share no pixel
TilesApart(t, j, k) ==
    LET a == TileOrigin(t, j)
        b == TileOrigin(t, k)
    IN  \/ a.x + t.tile_size <= b.x
        \/ b.x + t.tile_size <= a.x
        \/ a.y + t.tile_size <= b.y
        \/ b.y + t.tile_size <= a.y

\* C36: the glyph box of every item the cache returned to a render starts at
\* the origin of a slot of its tier, its tile lies inside the texture, the
\* box leaves the 2-pixel margin of the tile free, the tiles of distinct
\* slots do not overlap, and no cache exists for a config with
\* tile_size * tiles_per_axis > texture_size.
C36_ItemGeometry ==
    /\ \A i \in 1..Len(instance_list) :
          BoxInTile(instance_list[i].texture_index,
                    instance_list[i].uv_rect.texture_size,
                    instance_list[i].uv_rect.box)
    /\ \A i \in 1..Len(update_atlas_list) :
          LET u == update_atlas_list[i]
          IN  BoxInTile(u.texture_index, caches[u.texture_index + 1].texture_size,
                        [min_x |-> u.x, min_y |-> u.y,
                         max_x |-> u.x + u.width, max_y |-> u.y + u.height])
    /\ \A i \in 1..Len(caches) :
          /\ caches[i].tile_size * caches[i].tiles_per_axis <= caches[i].texture_size
          /\ \A j, k \in 0..(caches[i].tiles_per_axis * caches[i].tiles_per_axis - 1) :
                j /= k => TilesApart(caches[i], j, k)
    /\ pc = "panicked" => caches = <<>>

\* two glyphs of one batch lie in different tiles of a texture that is
\* larger than its tiles need, one of them in a tile that its glyph fills
\* up to the margin
C36_Witness ==
    /\ Len(instance_list) = 2
    /\ instance_list[1].texture_index = instance_list[2].texture_index
    /\ caches[instance_list[1].texture_index + 1].texture_size
          > caches[instance_list[1].texture_index + 1].tile_size
            * caches[instance_list[1].texture_index + 1].tiles_per_axis
    /\ \/ instance_list[1].uv_rect.box.min_x /= instance_list[2].uv_rect.box.min_x
       \/ instance_list[1].uv_rect.box.min_y /= instance_list[2].uv_rect.box.min_y
    /\ \E i \in 1..2 :
          instance_list[i].uv_rect.box.max_y + ATLAS_MARGIN
             = instance_list[i].uv_rect.box.min_y
               + caches[instance_list[i].texture_index + 1].tile_size

\* the glyphs of a layout, read line by line
RECURSIVE GlyphsInReadingOrder(_, _)
GlyphsInReadingOrder(lines, i) ==
    IF i > Len(lines) THEN <<>>
    ELSE lines[i].glyphs \o GlyphsInReadingOrder(lines, i + 1)

\* what a positioned glyph carries of its char, and what a fragment of the
\* input hands to the engine
Carried(glyph) ==
    [glyph_idx |-> glyph.glyph_id.glyph_idx, font_id |-> glyph.glyph_id.font_id,
     user_data |-> glyph.user_data]

Handed(fr) ==
    [glyph_idx |-> fr.glyph_idx, font_id |-> fr.font_id, user_data |-> fr.user_data]

RegularGlyph(glyph) == ~IsWhitespace(glyph.glyph_id.glyph_idx)

\* s is q with some of its elements left out
RECURSIVE IsSubsequence(_, _)
IsSubsequence(s, q) ==
    IF s = <<>> THEN TRUE
    ELSE IF q = <<>> THEN FALSE
    ELSE IF s[1] = q[1] THEN IsSubsequence(Tail(s), Tail(q))
    ELSE IsSubsequence(s, Tail(q))

\* C37: the glyphs of the regular chars of the layout, read line by line,
\* are the regular chars of the runs that are not skipped, one glyph for each
\* char, in input order, each with the face and the payload of its run; and
\* all the glyphs of the layout are in input order.
C37_GlyphsConserved ==
    LaidOut =>
        LET frs == InputFragments(texts, 1)
            regular == SelectSeq(frs, IsRegular)
            glyphs == GlyphsInReadingOrder(text_layout.lines, 1)
            placed == SelectSeq(glyphs, RegularGlyph)
        IN  /\ [k \in 1..Len(placed) |-> Carried(placed[k])]
                  = [k \in 1..Len(regular) |-> Handed(regular[k])]
            /\ IsSubsequence([k \in 1..Len(glyphs) |-> Carried(glyphs[k])],
                             [k \in 1..Len(frs) |-> Handed(frs[k])])

\* two runs with different payloads whose glyphs are wrapped onto two lines
C37_Witness ==
    /\ LaidOut
    /\ Len(texts) = 2
    /\ Len(text_layout.lines) = 2
    /\ Len(text_layout.lines[1].glyphs) = 1
    /\ Len(text_layout.lines[2].glyphs) = 1
    /\ text_layout.lines[1].glyphs[1].user_data = "p"
    /\ text_layout.lines[2].glyphs[1].user_data = "q"
    /\ RegularGlyph(text_layout.lines[1].glyphs[1])
    /\ RegularGlyph(text_layout.lines[2].glyphs[1])

\* the natural height of a run in face f: ascent - descent + line_gap
NaturalHeight(f) ==
    HorizontalLineMetrics(f).ascent - HorizontalLineMetrics(f).descent
        + HorizontalLineMetrics(f).line_gap

\* the unscaled height of a line record: recorded ascent - recorded descent
\* + recorded line_gap
RecordedHeight(record) ==
    RecordData(record).line_metrics.ascent - RecordData(record).line_metrics.descent
        + RecordData(record).line_metrics.line_gap

\* C38: the unscaled height of every line is at least the natural height of
\* the run of every glyph on the line; at line_height_scale = 1 the height
\* of the line of the layout is.
C38_LineHoldsEveryRun ==
    LaidOut =>
        \A i \in 1..Len(LineRecords) :
            \A k \in 1..Len(RecordData(LineRecords[i]).glyphs) :
                LET f == RecordData(LineRecords[i]).glyphs[k].glyph_id.font_id
                IN  /\ RecordedHeight(LineRecords[i]) >= NaturalHeight(f)
                    /\ config.line_height_scale = 1 =>
                          text_layout.lines[i].line_height >= NaturalHeight(f)

(***************************************************************************)
(* Renders of short layouts, many enough for the batch counter to wrap     *)
(* around: every render of a glyph that fits no tier calls new_batch once. *)
(***************************************************************************)
\* the smallest tier: one tile
RetryConfigChoices == {<<Config(8, 1, 8)>>}

RetryLayouts == {<<(<<2>>)>>, <<(<<LargeGlyph>>)>>, <<(<<1, 2>>)>>}

\* glyph positions of all the layouts rendered in one run of SpecRetry
RetryGlyphs == BatchIdModulus + 3

InitRetry ==
    /\ cs = CacheStateNew(TierCapacity, Keys)
    /\ returned = NoneReturned
    /\ evicted = FALSE
    /\ \E configs \in RetryConfigChoices : RendererNew(configs, RetryGlyphs)
    /\ CpuUnused
    /\ LayoutUnused
    /\ LocksUnused

NextRetry ==
    \/ \E l \in RetryLayouts : RenderStart(l)
    \/ RenderGlyph
    \/ \E o \in {"Ok", "E1"} : RenderFlushUpdate(o)
    \/ \E o \in {"Ok", "E1"} : RenderFlushDraw(o)
    \/ RenderRetry
    \/ \E o \in {"Ok", "E1"} : RenderStandalone(o)
    \/ \E o \in {"Ok", "E1"} : RenderFinalUpdate(o)
    \/ \E o \in {"Ok", "E1"} : RenderFinalDraw(o)
    \/ RenderReturn

SpecRetry == InitRetry /\ [][NextRetry]_vars

\* C40: the second get_or_push_and_protect of a glyph that fits some tier,
\* after the flush and new_batch, succeeds: it adds one instance of the
\* glyph, and an update exactly when the glyph was not cached; try_render
\* goes on to draw_standalone only with a glyph that fits no tier.
C40_RetryAdmits ==
    [][/\ (pc = "retry" /\ ~FitsNoTier(caches, CurrentGlyph))
            => /\ pc' /= "standalone"
               /\ instance_list' =
                     Append(instance_list,
                            instance_list'[Len(instance_list')])
               /\ instance_list'[Len(instance_list')].glyph = CurrentGlyph
               /\ Len(update_atlas_list') =
                     Len(update_atlas_list)
                        + (IF CachedIn(caches, CurrentGlyph) THEN 0 ELSE 1)
       /\ (pc /= "standalone" /\ pc' = "standalone")
            => /\ pc = "retry"
               /\ FitsNoTier(caches, CurrentGlyph)
      ]_vars

\* the retry has just admitted a glyph into a tier of one tile, with the
\* new_batch before it wrapping the batch counter around to 0
C40_Witness ==
    /\ stream /= <<>>
    /\ LastEvent.kind = "new_batch"
    /\ Len(stream) > 1
    /\ Len(instance_list) = 1
    /\ Len(update_atlas_list) = 1
    /\ \A i \in 1..Len(caches) :
          /\ caches[i].tiles_per_axis = 1
          /\ caches[i].cache_state.current_batch_id = 0

====
